---- MODULE Spec2Model ----
\* A model of the maven-artifact resolver: the coordinate model
\* (lib/src/artifact.rs, src/lib.rs) and Resolver::download
\* (lib/src/resolver.rs).
\*
\* Strings are sequences of one-character strings, so that ends_with,
\* to_lowercase, replace, split and format! are computed character by
\* character as the code computes them.  Option<T> is a sequence of length
\* 0 (None) or 1 (Some(x)).
EXTENDS Integers, Sequences, FiniteSets, TLC

VARIABLES
    artifact,     \* download: the &Artifact argument
    base_url,     \* the Url handed to the Repository constructor
    repository,   \* Resolver.repository
    dir,          \* download: the destination directory argument
    pc,           \* download: position of the async fn
    branch,       \* download: which arm of the version classification ran
    meta,         \* download: Option of the parsed VersionedMetadata
    resolved,     \* download: Option of the ResolvedArtifact given to download0
    requests,     \* the GETs sent through the client, in order
    files,        \* the files created in the file system
    result,       \* download: the value returned (or the panic)
    input,        \* parse: the &str argument
    parsed,       \* parse: Option of the Result of Artifact::parse(input)
    partial,      \* parse: Option of the Result of PartialArtifact::parse(input)
    coordinate,   \* render: the Artifact that is displayed
    rendered,     \* render: Option of coordinate.to_string()
    reparsed,     \* render: Option of the Result of Artifact::parse(rendered)
    printed,      \* parse: Option of the to_string() of the parsed Artifact
    poms,         \* collect: what the repository answers to the GET of a pom.xml path
    cd_pc,        \* collect: position of the async fn collect_dependencies
    project,      \* collect: Option of the requested project's parsed POM
    parents,      \* collect: the Vec<Project> of get_parents
    tasks,        \* collect: the futures of the join_all that is awaited
    boms,         \* collect: the HashMap of get_boms_from_all
    cd_props,     \* collect: the HashMap props of collect_dependencies
    collected,    \* collect: the value collect_dependencies returned
    include_dependencies, \* resolve-project: the --include-dependencies flag
    flatten,      \* resolve-project: the --flatten flag
    rp_deps,      \* resolve-project: the Vec<Artifact> collect_dependencies gave
    downloads,    \* resolve-project: the futures of the join_all over rp_deps
    rp_pc,        \* resolve-project: position of the command
    rp_result,    \* resolve-project: the error (or panic) the command ended with
    document,     \* xml: the document handed to a parser, as its root element
    pom_result,   \* xml: Option of the Result of PomParser::parse(document)
    md_result,    \* xml: Option of the Result of VersionedMetadata::parse(document)
    sel_versions, \* versions: meta.versioning.versions
    sel_size,     \* versions: the --size option
    sel_out       \* versions: Option of what the command printed (or its failure)

dlvars == <<artifact, base_url, repository, dir, pc, branch, meta, resolved,
            requests, files, result>>
parsevars == <<input, parsed, partial>>
rendervars == <<coordinate, rendered, reparsed, printed>>
collectvars == <<poms, cd_pc, project, parents, tasks, boms, cd_props, collected>>
resolvevars == <<include_dependencies, flatten, rp_deps, downloads, rp_pc, rp_result>>
xmlvars == <<document, pom_result, md_result>>
versionsvars == <<sel_versions, sel_size, sel_out>>
extravars == <<rendervars, collectvars, resolvevars, xmlvars, versionsvars>>
vars == <<artifact, base_url, repository, dir, pc, branch, meta, resolved,
          requests, files, result, input, parsed, partial, extravars>>

-----------------------------------------------------------------------------
\* Option<T>

None == <<>>
Some(x) == <<x>>
IsSome(o) == Len(o) = 1
IsNone(o) == Len(o) = 0
Unwrap(o) == o[1]
\* Option::or
OptOr(a, b) == IF IsSome(a) THEN a ELSE b
\* Option::unwrap_or
UnwrapOr(o, d) == IF IsSome(o) THEN o[1] ELSE d

-----------------------------------------------------------------------------
\* HashMap<K, V>

\* HashMap::new
EmptyMap == [k \in {} |-> k]
\* HashMap::extend: the entries of other replace those of m with the same key
extend(m, other) == other @@ m
\* HashMap::get
get(m, k) == IF k \in DOMAIN m THEN Some(m[k]) ELSE None

-----------------------------------------------------------------------------
\* str operations

Slash == "/"
Colon == ":"
Dot == "."
Dash == "-"

UpperChars == <<"A","B","C","D","E","F","G","H","I","J","K","L","M",
                "N","O","P","Q","R","S","T","U","V","W","X","Y","Z">>
LowerChars == <<"a","b","c","d","e","f","g","h","i","j","k","l","m",
                "n","o","p","q","r","s","t","u","v","w","x","y","z">>
DigitChars == <<"0","1","2","3","4","5","6","7","8","9">>

LowerChar(c) ==
    IF \E i \in 1..Len(UpperChars) : UpperChars[i] = c
    THEN LowerChars[CHOOSE i \in 1..Len(UpperChars) : UpperChars[i] = c]
    ELSE c

\* str::to_lowercase (on the ASCII range)
to_lowercase(s) == [i \in 1..Len(s) |-> LowerChar(s[i])]

\* str::ends_with
ends_with(s, suf) ==
    /\ Len(s) >= Len(suf)
    /\ SubSeq(s, Len(s) - Len(suf) + 1, Len(s)) = suf

\* str::starts_with
starts_with(s, pre) ==
    /\ Len(s) >= Len(pre)
    /\ SubSeq(s, 1, Len(pre)) = pre

\* str::replace for one-character patterns
replace(s, from, to) == [i \in 1..Len(s) |-> IF s[i] = from THEN to ELSE s[i]]

\* position of the first occurrence of character c in s, Len(s)+1 when absent
IndexOf(s, c) ==
    IF \E i \in 1..Len(s) : s[i] = c
    THEN CHOOSE i \in 1..Len(s) : s[i] = c /\ \A j \in 1..(i-1) : s[j] # c
    ELSE Len(s) + 1

\* str::split(c).collect::<Vec<_>>()
RECURSIVE split(_, _)
split(s, c) ==
    LET i == IndexOf(s, c)
    IN IF i > Len(s) THEN <<s>>
       ELSE <<SubSeq(s, 1, i - 1)>> \o split(SubSeq(s, i + 1, Len(s)), c)

\* Display of a non-negative integer
RECURSIVE NatToStr(_)
NatToStr(n) ==
    IF n < 10 THEN <<DigitChars[n + 1]>>
    ELSE NatToStr(n \div 10) \o <<DigitChars[(n % 10) + 1]>>

\* Display of an i32
IntToStr(n) == IF n < 0 THEN <<Dash>> \o NatToStr(-n) ELSE NatToStr(n)

\* string literals of the code
str_SNAPSHOT == <<"-","S","N","A","P","S","H","O","T">>
str_latest == <<"l","a","t","e","s","t">>
str_release == <<"r","e","l","e","a","s","e">>
str_jar == <<"j","a","r">>
str_maven_metadata_xml == <<"m","a","v","e","n","-","m","e","t","a","d","a","t","a",
                            ".","x","m","l">>

-----------------------------------------------------------------------------
\* src/lib.rs: Version, GroupId, Url, Repository

\* Version::is_snapshot
is_snapshot_any_case(v) == ends_with(to_lowercase(v), to_lowercase(str_SNAPSHOT))
is_snapshot(v) == ends_with(v, str_SNAPSHOT)

\* Version::is_latest
is_latest(v) == to_lowercase(v) = str_latest

\* Version::is_release
is_release(v) == to_lowercase(v) = str_release

\* Version::is_meta_version
is_meta_version(v) == is_latest(v) \/ is_release(v)

\* GroupId::path_string
path_string(g) == replace(g, Dot, Slash)

\* Url::path
Url_path(url) == url.path

\* Url::set_path on an http(s) url: the path of a special url is never empty
Url_set_path(url, p) ==
    [url EXCEPT !.path = IF starts_with(p, <<Slash>>) THEN p ELSE <<Slash>> \o p]

\* the input of Url::join without its leading slashes
RECURSIVE SkipSlashes(_)
SkipSlashes(s) ==
    IF starts_with(s, <<Slash>>) THEN SkipSlashes(Tail(s)) ELSE s

\* Url::join on an http(s) base: a reference that starts with "//" carries
\* its own authority, one that starts with "/" replaces the path, any other
\* replaces the last segment of the base path.  The result is
\* [ok |-> TRUE, url |-> u] or [ok |-> FALSE] (url::ParseError).
Url_join(base, ref) ==
    IF starts_with(ref, <<Slash, Slash>>) THEN
        LET rest == SkipSlashes(ref)
            i == IndexOf(rest, Slash)
            host == SubSeq(rest, 1, i - 1)
            p == SubSeq(rest, i, Len(rest))
        IN IF host = <<>> THEN [ok |-> FALSE]
           ELSE [ok |-> TRUE,
                 url |-> [host |-> host, path |-> IF p = <<>> THEN <<Slash>> ELSE p]]
    ELSE IF starts_with(ref, <<Slash>>) THEN
        [ok |-> TRUE, url |-> [host |-> base.host, path |-> ref]]
    ELSE
        LET segs == split(base.path, Slash)
            keep == SubSeq(base.path, 1, Len(base.path) - Len(segs[Len(segs)]))
        IN [ok |-> TRUE, url |-> [host |-> base.host, path |-> keep \o ref]]

\* Repository::new
Repository_new(url, snapshots, releases) ==
    LET new_base ==
            IF ends_with(Url_path(url), <<Slash>>)
            THEN Url_set_path(url, SubSeq(Url_path(url), 1, Len(Url_path(url)) - 1))
            ELSE url
    IN [url |-> new_base, snapshots |-> snapshots, releases |-> releases]

\* Repository::both
Repository_both(url) == Repository_new(url, TRUE, TRUE)
\* Repository::releases
Repository_releases(url) == Repository_new(url, FALSE, TRUE)
\* Repository::snapshots
Repository_snapshots(url) == Repository_new(url, TRUE, FALSE)

-----------------------------------------------------------------------------
\* lib/src/artifact.rs: Artifact, PartialArtifact, ResolvedArtifact

\* Result<_, ParseArtifactError>
ParseOk(a) == [ok |-> TRUE, value |-> a]
ParseErr == [ok |-> FALSE]

\* Artifact::partial
Artifact_partial(g, a) ==
    [group_id |-> g, artifact_id |-> a, version |-> None,
     extension |-> None, classifier |-> None]

\* PartialArtifact::new
PartialArtifact_new(g, a) == Artifact_partial(g, a)

\* PartialArtifact::path
PartialArtifact_path(a) == path_string(a.group_id) \o <<Slash>> \o a.artifact_id

\* PartialArtifact::parse
PartialArtifact_parse(s) ==
    LET parts == split(s, Colon)
    IN IF Len(parts) = 2 THEN ParseOk(PartialArtifact_new(parts[1], parts[2]))
       ELSE ParseErr

\* Artifact::is_snapshot
Artifact_is_snapshot(a) ==
    IF IsSome(a.version) THEN is_snapshot(Unwrap(a.version)) ELSE FALSE

\* Artifact::path
Artifact_path(a) ==
    LET base == path_string(a.group_id) \o <<Slash>> \o a.artifact_id
    IN base \o <<Slash>> \o Unwrap(a.version)

\* Option<String>::as_deref().unwrap_or("jar")
ext_or_jar(a) == UnwrapOr(a.extension, str_jar)

\* Artifact::file_name
Artifact_file_name(a) ==
    a.artifact_id \o <<Dash>> \o Unwrap(a.version) \o <<Dot>> \o ext_or_jar(a)

\* Artifact::parse
Artifact_parse_lenient(s) ==
    LET parts == split(s, Colon)
        n == Len(parts)
    IN IF n >= 3 THEN
          IF n = 3 THEN
              ParseOk([group_id |-> parts[1], artifact_id |-> parts[2],
                       version |-> Some(parts[3]),
                       extension |-> None, classifier |-> None])
          ELSE IF n = 4 THEN
              ParseOk([group_id |-> parts[1], artifact_id |-> parts[2],
                       version |-> Some(parts[4]),
                       extension |-> Some(parts[3]), classifier |-> None])
          ELSE
              ParseOk([group_id |-> parts[1], artifact_id |-> parts[2],
                       version |-> Some(parts[n]),
                       extension |-> Some(parts[3]),
                       classifier |-> Some(parts[4])])
       ELSE ParseErr
Artifact_parse(s) ==
    LET parts == split(s, Colon)
    IN IF Len(parts) >= 3 THEN
          LET ga == SubSeq(parts, 1, 2)
              rest == SubSeq(parts, 3, Len(parts))
          IN CASE Len(rest) = 1 ->
                    ParseOk([group_id |-> ga[1], artifact_id |-> ga[2],
                             version |-> Some(rest[1]),
                             extension |-> None, classifier |-> None])
               [] Len(rest) = 2 ->
                    ParseOk([group_id |-> ga[1], artifact_id |-> ga[2],
                             version |-> Some(rest[2]),
                             extension |-> Some(rest[1]), classifier |-> None])
               [] Len(rest) = 3 ->
                    ParseOk([group_id |-> ga[1], artifact_id |-> ga[2],
                             version |-> Some(rest[3]),
                             extension |-> Some(rest[1]),
                             classifier |-> Some(rest[2])])
               [] OTHER -> ParseErr
       ELSE ParseErr

\* Display for Artifact: the match on (extension, classifier)
fmt_extension_classifier_keep_jar(a) ==
    IF IsSome(a.extension) /\ IsSome(a.classifier)
    THEN <<Colon>> \o Unwrap(a.extension) \o <<Colon>> \o Unwrap(a.classifier)
    ELSE IF IsNone(a.extension) /\ IsSome(a.classifier)
    THEN <<Colon>> \o str_jar \o <<Colon>> \o Unwrap(a.classifier)
    ELSE IF IsSome(a.extension) /\ IsNone(a.classifier)
    THEN <<Colon>> \o Unwrap(a.extension)
    ELSE <<>>
fmt_extension_classifier(a) ==
    IF IsSome(a.extension) /\ IsSome(a.classifier)
    THEN <<Colon>> \o Unwrap(a.extension) \o <<Colon>> \o Unwrap(a.classifier)
    ELSE IF IsNone(a.extension) /\ IsSome(a.classifier)
    THEN <<Colon>> \o str_jar \o <<Colon>> \o Unwrap(a.classifier)
    ELSE IF IsSome(a.extension) /\ IsNone(a.classifier)
            /\ Unwrap(a.extension) # str_jar
    THEN <<Colon>> \o Unwrap(a.extension)
    ELSE <<>>

\* Display for Artifact (to_string)
Artifact_fmt_version_first(a) ==
    LET gav == a.group_id \o <<Colon>> \o a.artifact_id
        gav_v == IF IsSome(a.version)
                 THEN gav \o <<Colon>> \o Unwrap(a.version)
                 ELSE gav
    IN gav_v \o fmt_extension_classifier(a)
Artifact_fmt(a) ==
    LET gav == a.group_id \o <<Colon>> \o a.artifact_id
        gav_ec == gav \o fmt_extension_classifier(a)
    IN IF IsSome(a.version)
       THEN gav_ec \o <<Colon>> \o Unwrap(a.version)
       ELSE gav_ec

\* ResolvedArtifact::path
ResolvedArtifact_path_own_version(r) ==
    LET base == path_string(r.artifact.group_id) \o <<Slash>> \o r.artifact.artifact_id
    IN base \o <<Slash>> \o Unwrap(r.artifact.version)
ResolvedArtifact_path(r) ==
    LET base == path_string(r.artifact.group_id) \o <<Slash>> \o r.artifact.artifact_id
        version == IF Artifact_is_snapshot(r.artifact)
                   THEN Unwrap(r.artifact.version)
                   ELSE r.resolved_version
    IN base \o <<Slash>> \o version

\* ResolvedArtifact::uri
ResolvedArtifact_uri(r, repo) ==
    LET p0 == Url_path(repo.url) \o <<Slash>> \o ResolvedArtifact_path(r) \o <<Slash>>
              \o r.artifact.artifact_id \o <<Dash>> \o r.resolved_version
        p1 == IF IsSome(r.artifact.classifier)
              THEN p0 \o <<Dash>> \o Unwrap(r.artifact.classifier)
              ELSE p0
        current_path == p1 \o <<Dot>> \o ext_or_jar(r.artifact)
    IN Url_join(repo.url, current_path)

\* Path::join
Path_join(d, name) ==
    IF starts_with(name, <<Slash>>) THEN name ELSE d \o <<Slash>> \o name

-----------------------------------------------------------------------------
\* lib/src/metadata.rs: the records VersionedMetadata::parse produces

Snapshot(t, b) == [timestamp |-> t, buildNumber |-> b]

\* SnapshotVersion::new
SnapshotVersion_new(value, updated, classifier, extension) ==
    [value |-> value, updated |-> updated,
     classifier |-> classifier, extension |-> extension]

Versioning(latest, release, snapshot, snapshot_versions) ==
    [latest |-> latest, release |-> release, versions |-> None,
     last_updated |-> None, snapshot |-> snapshot,
     snapshot_versions |-> snapshot_versions]

VersionedMetadata(g, a, versioning) ==
    [group_id |-> g, artifact_id |-> a, versioning |-> versioning]

-----------------------------------------------------------------------------
\* lib/src/resolver.rs: Resolver::download

\* Result<PathBuf, ResolveError>, and the panic of an unwrap() on None
NoResult == [kind |-> "none"]
Ok(path) == [kind |-> "Ok", path |-> path]
Err(e) == [kind |-> "Err", error |-> e]
GenericHttpError(url, status) ==
    [kind |-> "Err", error |-> "GenericHttpError", url |-> url, status |-> status]
Panic == [kind |-> "Panic"]

\* StatusCode::is_success
is_success_below_500(status) == status >= 200 /\ status < 500
is_success(status) == status >= 200 /\ status < 300

\* the url Resolver::metadata0 sends its GET to
metadata0_url(repo, path, file) ==
    Url_join(repo.url, Url_path(repo.url) \o <<Slash>> \o path \o <<Slash>> \o file)

\* the log entry of a GET (status 0: no response yet)
MetadataRequest(path, file, url) ==
    [kind |-> "metadata", path |-> path, file |-> file, url |-> url, status |-> 0]
ArtifactRequest(url) ==
    [kind |-> "artifact", path |-> <<>>, file |-> <<>>, url |-> url, status |-> 0]

\* the guard of the snapshot arm
snapshots_allowed_releases_flag(repo) == repo.releases
snapshots_allowed(repo) == repo.snapshots

\* Iterator::find_map over the snapshot versions: the value of the first
\* entry whose value ends with meta_version
RECURSIVE find_last(_, _)
find_last(versions, meta_version) ==
    IF versions = <<>> THEN None
    ELSE IF ends_with(versions[Len(versions)].value, meta_version)
         THEN Some(versions[Len(versions)].value)
         ELSE find_last(SubSeq(versions, 1, Len(versions) - 1), meta_version)
RECURSIVE find_map(_, _)
find_map(versions, meta_version) ==
    IF versions = <<>> THEN None
    ELSE IF ends_with(Head(versions).value, meta_version)
         THEN Some(Head(versions).value)
         ELSE find_map(Tail(versions), meta_version)

\* the snapshot arm after versioning.snapshot.unwrap(): the resolved version
snapshot_resolved_version(a, versioning) ==
    LET snapshot == Unwrap(versioning.snapshot)
        meta_version == snapshot.timestamp \o <<Dash>> \o IntToStr(snapshot.buildNumber)
        versions == UnwrapOr(versioning.snapshot_versions, <<>>)
        found == find_map(versions, meta_version)
    IN Unwrap(OptOr(found, a.version))

\* the meta-version arm: the pointer taken from the metadata
maybe_resolved_either(version, versioning) ==
    IF is_release(version) THEN OptOr(versioning.release, versioning.latest)
    ELSE OptOr(versioning.latest, versioning.release)
maybe_resolved(version, versioning) ==
    IF is_release(version) THEN versioning.release ELSE versioning.latest

\* the local path Resolver::download0 writes to
download0_path(r, d) == Path_join(d, Artifact_file_name(r.artifact))

\* return from download
Return(r) == result' = r /\ pc' = "done"

\* maven_metadata(path) up to the await of send(), after the GETs reqs
maven_metadata_send(path, reqs) ==
    LET u == metadata0_url(repository, path, str_maven_metadata_xml)
    IN IF u.ok
       THEN /\ requests' = Append(reqs, MetadataRequest(path, str_maven_metadata_xml, u.url))
            /\ pc' = "metadata"
            /\ UNCHANGED result
       ELSE /\ requests' = reqs
            /\ Return(Err("UrlError"))

\* download0(r, path) up to the await of send(), after the GETs reqs
download0_send(r, reqs) ==
    LET u == ResolvedArtifact_uri(r, repository)
    IN /\ resolved' = Some(r)
       /\ IF u.ok
          THEN /\ requests' = Append(reqs, ArtifactRequest(u.url))
               /\ pc' = "artifact"
               /\ UNCHANGED result
          ELSE /\ requests' = reqs
               /\ Return(Err("UrlError"))

\* download, from the call to its first await (or its return)
download ==
    /\ pc = "start"
    /\ IF IsNone(artifact.version)
       THEN /\ branch' = "no_version"
            /\ Return(Err("Message: No version set"))
            /\ UNCHANGED <<requests, resolved>>
       ELSE LET version == Unwrap(artifact.version)
            IN IF Artifact_is_snapshot(artifact)
               THEN /\ branch' = "snapshot"
                    /\ UNCHANGED resolved
                    /\ IF snapshots_allowed(repository)
                       THEN maven_metadata_send(Artifact_path(artifact), requests)
                       ELSE /\ Return(Err("Message: snapshots from a non-snapshot repository"))
                            /\ UNCHANGED requests
               ELSE IF is_meta_version(version)
               THEN /\ branch' = "meta"
                    /\ UNCHANGED resolved
                    /\ maven_metadata_send(Artifact_path(artifact), requests)
               ELSE /\ branch' = "fixed"
                    /\ download0_send([artifact |-> artifact, resolved_version |-> version],
                                      requests)
    /\ UNCHANGED <<artifact, base_url, repository, dir, meta, files, parsevars, extravars>>

\* what the repository may answer to the metadata GET
MetaTimestamp == <<"7",".","3">>
MetaSnapshots == {None, Some(Snapshot(MetaTimestamp, 15))}
SV(value) == SnapshotVersion_new(value, <<"7">>, None, None)
MetaSnapshotVersions ==
    {None,
     Some(<<SV(<<"1",".","0","-","7",".","3","-","1","4">>)>>),
     Some(<<SV(<<"1",".","0","-","7",".","3","-","1","5">>)>>),
     Some(<<SV(<<"1",".","0","-","7",".","3","-","1","4">>),
            SV(<<"1",".","0","-","7",".","3","-","1","5">>),
            SV(<<"2",".","0","-","7",".","3","-","1","5">>)>>)}
MetaReleases == {None, Some(<<"1",".","2">>)}
MetaLatests == {None, Some(<<"2",".","0">>)}
Metadatas ==
    {VersionedMetadata(artifact.group_id, artifact.artifact_id, Versioning(l, r, s, sv)) :
        l \in MetaLatests, r \in MetaReleases, s \in MetaSnapshots,
        sv \in MetaSnapshotVersions}
Statuses == {200, 404, 500}
MetadataOutcomes ==
    {[send |-> FALSE, status |-> 0, parses |-> FALSE, meta |-> None]}
    \cup {[send |-> TRUE, status |-> st, parses |-> FALSE, meta |-> None] : st \in Statuses}
    \cup {[send |-> TRUE, status |-> st, parses |-> TRUE, meta |-> Some(m)] :
             st \in Statuses, m \in Metadatas}

\* download, from the response of the metadata GET to the next await (or
\* the return): the rest of metadata0, then the arm of the classification
metadata_response ==
    /\ pc = "metadata"
    /\ \E o \in MetadataOutcomes :
        LET answered == [requests EXCEPT ![Len(requests)].status = o.status]
            url == requests[Len(requests)].url
        IN IF ~o.send
           THEN /\ requests' = answered
                /\ Return(Err("Reqwest"))
                /\ UNCHANGED <<meta, resolved>>
           ELSE IF ~is_success(o.status)
           THEN /\ requests' = answered
                /\ Return(GenericHttpError(url, o.status))
                /\ UNCHANGED <<meta, resolved>>
           ELSE IF ~o.parses
           THEN /\ requests' = answered
                /\ Return(Err("XMLMetadataDecodeError"))
                /\ UNCHANGED <<meta, resolved>>
           ELSE LET versioning == Unwrap(o.meta).versioning
                IN /\ meta' = o.meta
                   /\ IF branch = "snapshot"
                      THEN IF IsNone(versioning.snapshot)
                           THEN /\ requests' = answered
                                /\ Return(Panic)
                                /\ UNCHANGED resolved
                           ELSE download0_send(
                                    [artifact |-> artifact,
                                     resolved_version |->
                                         snapshot_resolved_version(artifact, versioning)],
                                    answered)
                      ELSE LET r == maybe_resolved(Unwrap(artifact.version), versioning)
                           IN IF IsNone(r)
                              THEN /\ requests' = answered
                                   /\ Return(Err("Message: Failed to download artifact"))
                                   /\ UNCHANGED resolved
                              ELSE download0_send(
                                       [artifact |-> artifact,
                                        resolved_version |-> Unwrap(r)],
                                       answered)
    /\ UNCHANGED <<artifact, base_url, repository, dir, branch, files, parsevars, extravars>>

\* what the repository and the file system may do to the artifact GET
ArtifactOutcomes ==
    {[send |-> FALSE, status |-> 0, create |-> FALSE, stream |-> FALSE]}
    \cup {[send |-> TRUE, status |-> st, create |-> c, stream |-> w] :
             st \in Statuses, c \in BOOLEAN, w \in BOOLEAN}

\* the body the repository sends with a status
Body(status) == IF is_success(status) THEN "artifact" ELSE "error page"

\* File::create(path) followed by the writes of Resolver::write
File_create(fs, path, content) ==
    {f \in fs : f.path # path} \cup {[path |-> path, content |-> content]}

\* download0, from the response of the artifact GET to its return
artifact_response ==
    /\ pc = "artifact"
    /\ \E o \in ArtifactOutcomes :
        LET path == download0_path(Unwrap(resolved), dir)
        IN /\ requests' = [requests EXCEPT ![Len(requests)].status = o.status]
           /\ IF ~o.send
              THEN /\ Return(Err("Reqwest"))
                   /\ UNCHANGED files
              ELSE IF ~o.create
              THEN /\ Return(Err("IO"))
                   /\ UNCHANGED files
              ELSE IF ~o.stream
              THEN /\ files' = File_create(files, path, "truncated")
                   /\ Return(Err("Reqwest"))
              ELSE /\ files' = File_create(files, path, Body(o.status))
                   /\ Return(Ok(path))
    /\ UNCHANGED <<artifact, base_url, repository, dir, branch, meta, resolved, parsevars, extravars>>

\* the coordinates, repositories and directories download is called with
GroupIds == {<<"c",".","e">>}
ArtifactIds == {<<"a">>}
VersionStrings ==
    {<<"1",".","0">>,
     <<"1",".","0","-","S","N","A","P","S","H","O","T">>,
     <<"1",".","0","-","s","n","a","p","s","h","o","t">>,
     <<"R","E","L","E","A","S","E">>,
     <<"r","e","l","e","a","s","e">>,
     <<"L","a","T","e","S","t">>,
     <<"R","E","L","E","A","S","E","-","S","N","A","P","S","H","O","T">>,
     <<"x","l","a","t","e","s","t">>}
Extensions == {None, Some(<<"w","a","r">>)}
Classifiers == {None, Some(<<"s">>)}
Artifacts ==
    {[group_id |-> g, artifact_id |-> a, version |-> v,
      extension |-> e, classifier |-> c] :
        g \in GroupIds, a \in ArtifactIds,
        v \in {None} \cup {Some(x) : x \in VersionStrings},
        e \in Extensions, c \in Classifiers}
BaseUrls ==
    {[host |-> <<"h">>, path |-> p] :
        p \in {<<Slash>>, <<Slash, "m">>, <<Slash, "m", Slash>>}}
DownloadIdle ==
    /\ artifact \in Artifacts
    /\ base_url \in BaseUrls
    /\ repository \in {Repository_both(base_url), Repository_releases(base_url),
                       Repository_snapshots(base_url)}
    /\ dir = <<"d">>
    /\ branch = "none"
    /\ meta = None
    /\ resolved = None
    /\ requests = <<>>
    /\ files = {}
    /\ result = NoResult

ParseIdle ==
    /\ input = <<>>
    /\ parsed = None
    /\ partial = None

RenderIdle ==
    /\ coordinate = [group_id |-> <<"c">>, artifact_id |-> <<"a">>, version |-> None,
                     extension |-> None, classifier |-> None]
    /\ rendered = None
    /\ reparsed = None
    /\ printed = None

CollectIdle ==
    /\ poms = EmptyMap
    /\ cd_pc = "idle"
    /\ project = None
    /\ parents = <<>>
    /\ tasks = <<>>
    /\ boms = EmptyMap
    /\ cd_props = EmptyMap
    /\ collected = NoResult

ResolveIdle ==
    /\ include_dependencies = FALSE
    /\ flatten = FALSE
    /\ rp_deps = <<>>
    /\ downloads = <<>>
    /\ rp_pc = "idle"
    /\ rp_result = NoResult

XmlIdle ==
    /\ document = [name |-> "", text |-> <<>>, children |-> <<>>]
    /\ pom_result = None
    /\ md_result = None

VersionsIdle ==
    /\ sel_versions = None
    /\ sel_size = None
    /\ sel_out = None

ToolsIdle ==
    /\ XmlIdle
    /\ VersionsIdle

ExtraIdle ==
    /\ RenderIdle
    /\ CollectIdle
    /\ ResolveIdle
    /\ ToolsIdle

Init ==
    /\ DownloadIdle
    /\ pc = "start"
    /\ ParseIdle
    /\ ExtraIdle

Next ==
    \/ download
    \/ metadata_response
    \/ artifact_response

Spec == Init /\ [][Next]_vars

-----------------------------------------------------------------------------
\* Artifact::parse and PartialArtifact::parse on every string over
\* ParseAlphabet of at most MaxLen characters

MaxLen == 6
ParseAlphabet == {Colon, "a", "b"}
ParseInputs == UNION {[1..n -> ParseAlphabet] : n \in 0..MaxLen}

InitParse ==
    /\ artifact = [group_id |-> <<"c">>, artifact_id |-> <<"a">>, version |-> None,
                   extension |-> None, classifier |-> None]
    /\ base_url = [host |-> <<"h">>, path |-> <<Slash>>]
    /\ repository = Repository_both(base_url)
    /\ dir = <<"d">>
    /\ branch = "none"
    /\ meta = None
    /\ resolved = None
    /\ requests = <<>>
    /\ files = {}
    /\ result = NoResult
    /\ pc = "idle"
    /\ input \in ParseInputs
    /\ parsed = None
    /\ partial = None
    /\ ExtraIdle

\* a call of Artifact::parse(input)
parse_artifact ==
    /\ parsed = None
    /\ parsed' = Some(Artifact_parse(input))
    /\ UNCHANGED <<dlvars, pc, input, partial, extravars>>

\* a call of PartialArtifact::parse(input)
parse_partial ==
    /\ partial = None
    /\ partial' = Some(PartialArtifact_parse(input))
    /\ UNCHANGED <<dlvars, pc, input, parsed, extravars>>

NextParse ==
    \/ parse_artifact
    \/ parse_partial

SpecParse == InitParse /\ [][NextParse]_vars

-----------------------------------------------------------------------------
\* Display for Artifact followed by Artifact::parse, on every full
\* coordinate over the field values below

RenderGroupIds == {<<"c",".","e">>, <<>>}
RenderArtifactIds == {<<"a">>, str_jar}
RenderVersions == {<<"1">>, str_jar}
RenderExtensions == {None, Some(<<>>), Some(str_jar), Some(<<"p","o","m">>)}
RenderClassifiers == {None, Some(<<"s">>), Some(str_jar)}
Coordinates ==
    {[group_id |-> g, artifact_id |-> a, version |-> Some(v),
      extension |-> e, classifier |-> c] :
        g \in RenderGroupIds, a \in RenderArtifactIds, v \in RenderVersions,
        e \in RenderExtensions, c \in RenderClassifiers}

\* the download and parse variables at rest
DownloadUnused ==
    /\ artifact = [group_id |-> <<"c">>, artifact_id |-> <<"a">>, version |-> None,
                   extension |-> None, classifier |-> None]
    /\ base_url = [host |-> <<"h">>, path |-> <<Slash>>]
    /\ repository = Repository_both(base_url)
    /\ dir = <<"d">>
    /\ branch = "none"
    /\ meta = None
    /\ resolved = None
    /\ requests = <<>>
    /\ files = {}
    /\ result = NoResult
    /\ pc = "idle"

InitRender ==
    /\ DownloadUnused
    /\ ParseIdle
    /\ coordinate \in Coordinates
    /\ rendered = None
    /\ reparsed = None
    /\ printed = None
    /\ CollectIdle
    /\ ResolveIdle
    /\ ToolsIdle

\* a call of coordinate.to_string()
render ==
    /\ rendered = None
    /\ rendered' = Some(Artifact_fmt(coordinate))
    /\ UNCHANGED <<dlvars, parsevars, coordinate, reparsed, printed, collectvars, resolvevars, xmlvars,
                   versionsvars>>

\* a call of Artifact::parse on the rendered string
reparse ==
    /\ IsSome(rendered)
    /\ reparsed = None
    /\ reparsed' = Some(Artifact_parse(Unwrap(rendered)))
    /\ UNCHANGED <<dlvars, parsevars, coordinate, rendered, printed, collectvars, resolvevars, xmlvars,
                   versionsvars>>

NextRender ==
    \/ render
    \/ reparse

SpecRender == InitRender /\ [][NextRender]_vars

-----------------------------------------------------------------------------
\* Artifact::parse followed by to_string, on every string of at most
\* MaxParts colon-separated parts drawn from PrintParts

MaxParts == 5
PrintParts == {<<"a">>, str_jar, <<>>}

RECURSIVE join(_, _)
join(parts, sep) ==
    IF Len(parts) = 0 THEN <<>>
    ELSE IF Len(parts) = 1 THEN parts[1]
    ELSE parts[1] \o <<sep>> \o join(Tail(parts), sep)

PrintInputs ==
    {join(parts, Colon) : parts \in UNION {[1..n -> PrintParts] : n \in 2..MaxParts}}

InitPrint ==
    /\ DownloadUnused
    /\ input \in PrintInputs
    /\ parsed = None
    /\ partial = None
    /\ ExtraIdle

\* a call of to_string() on the Artifact that Artifact::parse returned
to_string ==
    /\ IsSome(parsed)
    /\ Unwrap(parsed).ok
    /\ printed = None
    /\ printed' = Some(Artifact_fmt(Unwrap(parsed).value))
    /\ UNCHANGED <<dlvars, parsevars, coordinate, rendered, reparsed, collectvars, resolvevars, xmlvars,
                   versionsvars>>

NextPrint ==
    \/ parse_artifact
    \/ to_string

SpecPrint == InitPrint /\ [][NextPrint]_vars

-----------------------------------------------------------------------------
\* lib/src/project.rs: Dependency, DependencyManagement, Project,
\* ProjectReference, PomParser

str_pom_xml == <<"p","o","m",".","x","m","l">>
str_pom == <<"p","o","m">>
str_import == <<"i","m","p","o","r","t">>

\* struct Dependency
Dependency(a, scope) == [artifact |-> a, scope |-> scope]

\* struct DependencyManagement
DependencyManagement(deps) == [dependencies |-> deps]

\* struct Project
Project(a, parent, dm, deps, props) ==
    [artifact |-> a, parent |-> parent, dependency_management |-> dm,
     dependencies |-> deps, properties |-> props]

\* ArtifactState::to_artifact
ArtifactState_to_artifact(state) ==
    IF IsNone(state.group_id) \/ IsNone(state.artifact_id) THEN ParseErr
    ELSE ParseOk([group_id |-> Unwrap(state.group_id),
                  artifact_id |-> Unwrap(state.artifact_id),
                  version |-> state.version,
                  extension |-> state.extension,
                  classifier |-> state.classifier])

\* PomParser::parse_project at EndDocument, on what the loop has read: pom is
\* the record of the project's coordinate elements (state), its parent, its
\* dependencyManagement, its dependencies and its properties.
PomParser_parse_project(pom) ==
    LET a == ArtifactState_to_artifact(pom.state)
    IN IF a.ok
       THEN ParseOk(Project(a.value, pom.parent, pom.dependency_management,
                            pom.dependencies, pom.properties))
       ELSE ParseErr

\* ProjectReference::from(&Artifact): the reference keeps groupId, artifactId
\* and version
ProjectReference_from(a) ==
    [group_id |-> a.group_id, artifact_id |-> a.artifact_id, version |-> a.version,
     extension |-> None, classifier |-> None]

\* ProjectReference::path
ProjectReference_path(r) == Artifact_path(r)

\* Dependency::is_scope
is_scope(d, scope) == d.scope = Some(scope)

\* Dependency::mngt_key
mngt_key(d) == d.artifact.group_id \o <<Colon>> \o d.artifact.artifact_id

\* Dependency::mapped: the HashMap of the dependencies by management key, a
\* later dependency replacing an earlier one with the same key
mapped(deps) ==
    [k \in {mngt_key(deps[i]) : i \in 1..Len(deps)} |->
        deps[CHOOSE i \in 1..Len(deps) :
                /\ mngt_key(deps[i]) = k
                /\ \A j \in (i+1)..Len(deps) : mngt_key(deps[j]) # k]]

\* property substitution in one string: every ${name} with name in props is
\* replaced by props[name], in one pass; any other text is kept
RECURSIVE substitute(_, _)
substitute(s, props) ==
    IF Len(s) = 0 THEN <<>>
    ELSE IF starts_with(s, <<"$", "{">>)
    THEN LET rest == SubSeq(s, 3, Len(s))
             j == IndexOf(rest, "}")
             name == SubSeq(rest, 1, j - 1)
         IN IF j <= Len(rest) /\ name \in DOMAIN props
            THEN props[name] \o substitute(SubSeq(rest, j + 1, Len(rest)), props)
            ELSE <<Head(s)>> \o substitute(Tail(s), props)
    ELSE <<Head(s)>> \o substitute(Tail(s), props)

\* substitution in an Option<String>
substitute_opt(o, props) ==
    IF IsSome(o) THEN Some(substitute(Unwrap(o), props)) ELSE None

\* Dependency::resolve_properties
resolve_properties(d, props) ==
    Dependency([group_id |-> substitute(d.artifact.group_id, props),
                artifact_id |-> substitute(d.artifact.artifact_id, props),
                version |-> substitute_opt(d.artifact.version, props),
                extension |-> substitute_opt(d.artifact.extension, props),
                classifier |-> substitute_opt(d.artifact.classifier, props)],
               d.scope)

\* Project::resolve_properties_this: the project's dependency management
\* with the project's own properties substituted
resolve_properties_this(p) ==
    DependencyManagement(
        [i \in 1..Len(p.dependency_management.dependencies) |->
            resolve_properties(p.dependency_management.dependencies[i], p.properties)])

-----------------------------------------------------------------------------
\* lib/src/resolver.rs: Resolver::collect_dependencies

\* Result<_, ResolveError> with a value
OkValue(v) == [kind |-> "Ok", value |-> v]

\* what the repository answers to the GET of the pom.xml under path
PomOutcome(path) ==
    IF path \in DOMAIN poms THEN poms[path] ELSE [status |-> 404, pom |-> None]

\* metadata0 from the response on, with Project::parse as parse_from: o.pom
\* is None when the body is not a POM the parser reads to its end
metadata0_pom(url, o) ==
    IF is_success(o.status)
    THEN IF IsSome(o.pom) /\ PomParser_parse_project(Unwrap(o.pom)).ok
         THEN OkValue(PomParser_parse_project(Unwrap(o.pom)).value)
         ELSE Err("PomParserError")
    ELSE GenericHttpError(url, o.status)

\* the filter of get_bill_of_materials
is_bom_import_any_type(d) == is_scope(d, str_import)
is_bom_import(d) == is_scope(d, str_import) /\ ext_or_jar(d.artifact) = str_pom

\* get_bill_of_materials: bill_of_materials_deps
bill_of_materials_deps(p) ==
    SelectSeq(p.dependency_management.dependencies, is_bom_import)

\* the fold of the parents' properties in collect_dependencies
RECURSIVE fold_properties(_)
fold_properties(ps) ==
    IF Len(ps) = 0 THEN EmptyMap
    ELSE extend(fold_properties(SubSeq(ps, 1, Len(ps) - 1)), ps[Len(ps)].properties)
RECURSIVE rfold_properties(_)
rfold_properties(ps) ==
    IF Len(ps) = 0 THEN EmptyMap
    ELSE extend(rfold_properties(Tail(ps)), ps[1].properties)

\* collect_dependencies: props
effective_properties(p, ps) == extend(rfold_properties(ps), p.properties)

\* collect_dependencies: the loop over project.dependencies
RECURSIVE dependencies_loop_first_only(_, _, _)
dependencies_loop_first_only(deps, props, bs) ==
    IF Len(deps) = 0 THEN <<>>
    ELSE LET dependency == resolve_properties(Head(deps), props)
             rest == dependencies_loop_first_only(Tail(deps), props, bs)
             seen == \E i \in 1..Len(rest) :
                        /\ rest[i].group_id = dependency.artifact.group_id
                        /\ rest[i].artifact_id = dependency.artifact.artifact_id
         IN IF seen THEN rest
            ELSE IF IsSome(dependency.artifact.version)
            THEN <<dependency.artifact>> \o rest
            ELSE IF IsSome(get(bs, mngt_key(dependency)))
            THEN <<Unwrap(get(bs, mngt_key(dependency))).artifact>> \o rest
            ELSE rest
RECURSIVE dependencies_loop(_, _, _)
dependencies_loop(deps, props, bs) ==
    IF Len(deps) = 0 THEN <<>>
    ELSE LET dependency == resolve_properties(Head(deps), props)
             rest == dependencies_loop(Tail(deps), props, bs)
         IN IF IsSome(dependency.artifact.version)
            THEN <<dependency.artifact>> \o rest
            ELSE IF IsSome(get(bs, mngt_key(dependency)))
            THEN <<Unwrap(get(bs, mngt_key(dependency))).artifact>> \o rest
            ELSE rest

\* the state of collect_dependencies as one record
CollectState ==
    [requests |-> requests, cd_pc |-> cd_pc, project |-> project,
     parents |-> parents, tasks |-> tasks, boms |-> boms, props |-> cd_props,
     collected |-> collected]

\* the next state of collect_dependencies is c
Become(c) ==
    /\ requests' = c.requests
    /\ cd_pc' = c.cd_pc
    /\ project' = c.project
    /\ parents' = c.parents
    /\ tasks' = c.tasks
    /\ boms' = c.boms
    /\ cd_props' = c.props
    /\ collected' = c.collected

\* return r from collect_dependencies
Returned(c, r) == [c EXCEPT !.collected = r, !.cd_pc = "done"]

\* project_metadata(ProjectReference::from(a)) up to the await of send():
\* the GET is appended to the log; the url of a repository with a non-root
\* base path always joins
pom_metadata_send(c, a) ==
    LET path == ProjectReference_path(ProjectReference_from(a))
        u == metadata0_url(repository, path, str_pom_xml)
    IN [c EXCEPT !.requests = Append(@, MetadataRequest(path, str_pom_xml, u.url))]

\* the future of one project_metadata call inside a join_all: owner is the
\* index of the parent whose get_bill_of_materials made it (0: the project),
\* req the index of its GET in the log
Task(owner, a, req) ==
    [owner |-> owner, artifact |-> a, req |-> req, state |-> "pending",
     output |-> NoResult]

\* get_bill_of_materials(p) up to its await: one future per BOM import of p,
\* each polled once, which sends its GET
RECURSIVE spawn(_, _, _)
spawn(c, owner, ds) ==
    IF Len(ds) = 0 THEN c
    ELSE LET sent == pom_metadata_send(c, Head(ds).artifact)
             t == Task(owner, Head(ds).artifact, Len(sent.requests))
         IN spawn([sent EXCEPT !.tasks = Append(@, t)], owner, Tail(ds))

\* join_all(parents.map(get_bill_of_materials)) up to its await
RECURSIVE spawn_parents(_, _)
spawn_parents(c, i) ==
    IF i > Len(c.parents) THEN c
    ELSE spawn_parents(spawn(c, i, bill_of_materials_deps(c.parents[i])), i + 1)

\* the tasks of one get_bill_of_materials call
TasksOf(ts, owner) == SelectSeq(ts, LAMBDA t : t.owner = owner)

AllReady(ts) == \A i \in 1..Len(ts) : ts[i].state = "ready"

\* the dependencies of the fetched BOMs, in the order of the imports
bom_dependencies_first_only(ts) ==
    IF Len(ts) = 0 THEN <<>>
    ELSE resolve_properties_this(Head(ts).output.value).dependencies
RECURSIVE bom_dependencies(_)
bom_dependencies(ts) ==
    IF Len(ts) = 0 THEN <<>>
    ELSE resolve_properties_this(Head(ts).output.value).dependencies
         \o bom_dependencies(Tail(ts))

\* collecting a Vec<Result<T, E>> into a Result<Vec<T>, E>: the first Err in
\* the order of the Vec, or the position 0
LastErr(outputs) ==
    IF \E i \in 1..Len(outputs) : outputs[i].kind # "Ok"
    THEN CHOOSE i \in 1..Len(outputs) :
            /\ outputs[i].kind # "Ok"
            /\ \A j \in (i+1)..Len(outputs) : outputs[j].kind = "Ok"
    ELSE 0
FirstErr(outputs) ==
    IF \E i \in 1..Len(outputs) : outputs[i].kind # "Ok"
    THEN CHOOSE i \in 1..Len(outputs) :
            /\ outputs[i].kind # "Ok"
            /\ \A j \in 1..(i-1) : outputs[j].kind = "Ok"
    ELSE 0

\* get_bill_of_materials from the completion of its join_all on: ts are its
\* futures, all ready
bill_of_materials(ts) ==
    LET outputs == [i \in 1..Len(ts) |-> ts[i].output]
    IN IF FirstErr(outputs) # 0 THEN outputs[FirstErr(outputs)]
       ELSE OkValue(bom_dependencies(ts))

\* collect_dependencies after get_boms_from_all: props and the loop
collect_finish(c) ==
    LET p == Unwrap(c.project)
        ps == effective_properties(p, c.parents)
    IN Returned([c EXCEPT !.props = ps],
                OkValue(dependencies_loop(p.dependencies, ps, c.boms)))

\* get_boms_from_all after get_bill_of_materials(project)
project_boms_joined(c) ==
    LET r == bill_of_materials(TasksOf(c.tasks, 0))
    IN IF r.kind # "Ok" THEN Returned(c, r)
       ELSE collect_finish([c EXCEPT !.boms = extend(@, mapped(r.value))])

\* get_boms_from_all: get_bill_of_materials(project) up to its await, or to
\* the return of collect_dependencies when there is nothing to await
project_boms_start(c) ==
    LET s == spawn([c EXCEPT !.tasks = <<>>, !.cd_pc = "boms_project"], 0,
                   bill_of_materials_deps(Unwrap(c.project)))
    IN IF AllReady(s.tasks) THEN project_boms_joined(s) ELSE s

\* get_boms_from_all: the loop over the parents' results, nearest parent
\* first, each extending the map
RECURSIVE extend_with_parent_boms(_, _, _)
extend_with_parent_boms(m, results, i) ==
    IF i > Len(results) THEN m
    ELSE extend_with_parent_boms(extend(m, mapped(results[i].value)), results, i + 1)

\* get_boms_from_all after the join_all over the parents
parent_boms_joined(c) ==
    LET results == [i \in 1..Len(c.parents) |-> bill_of_materials(TasksOf(c.tasks, i))]
    IN IF FirstErr(results) # 0 THEN Returned(c, results[FirstErr(results)])
       ELSE project_boms_start(
                [c EXCEPT !.boms = extend_with_parent_boms(EmptyMap, results, 1)])

\* get_boms_from_all up to its first await
parent_boms_start(c) ==
    LET s == spawn_parents([c EXCEPT !.tasks = <<>>, !.cd_pc = "boms_parents"], 1)
    IN IF AllReady(s.tasks) THEN parent_boms_joined(s) ELSE s

\* get_parent(p) up to its await, or the end of get_parents
get_parent_never(c, p) == parent_boms_start(c)
get_parent(c, p) ==
    IF IsSome(p.parent)
    THEN [pom_metadata_send(c, Unwrap(p.parent)) EXCEPT !.cd_pc = "parent"]
    ELSE parent_boms_start(c)

\* collect_dependencies up to its first await
collect_dependencies ==
    /\ cd_pc = "start"
    /\ Become([pom_metadata_send(CollectState, artifact) EXCEPT !.cd_pc = "project"])
    /\ UNCHANGED <<artifact, base_url, repository, dir, pc, branch, meta, resolved,
                   files, result, parsevars, rendervars, poms,
                   resolvevars, xmlvars, versionsvars>>

\* the GET at index k of the log, answered
Answered(c, k) ==
    [c EXCEPT !.requests[k].status = PomOutcome(c.requests[k].path).status]

\* the result of the project_metadata call whose GET is at index k
PomResult(c, k) ==
    metadata0_pom(c.requests[k].url, PomOutcome(c.requests[k].path))

\* the response for the requested project's POM
project_response ==
    /\ cd_pc = "project"
    /\ LET k == Len(requests)
           c == Answered(CollectState, k)
           r == PomResult(c, k)
       IN IF r.kind # "Ok" THEN Become(Returned(c, r))
          ELSE Become(get_parent([c EXCEPT !.project = Some(r.value)], r.value))
    /\ UNCHANGED <<artifact, base_url, repository, dir, pc, branch, meta, resolved,
                   files, result, parsevars, rendervars, poms,
                   resolvevars, xmlvars, versionsvars>>

\* the number of ancestors after which the model stops following a parent
\* walk that has not ended
MaxParents == 4

\* get_parent when project_metadata gave the error r: .ok()? makes it None,
\* which ends the loop of get_parents
get_parent_failed_raises(c, r) == Returned(c, r)
get_parent_failed(c, r) == parent_boms_start(c)

\* the response for a parent's POM in get_parents
parent_response ==
    /\ cd_pc = "parent"
    /\ Len(parents) < MaxParents
    /\ LET k == Len(requests)
           c == Answered(CollectState, k)
           r == PomResult(c, k)
       IN IF r.kind # "Ok" THEN Become(get_parent_failed(c, r))
          ELSE Become(get_parent([c EXCEPT !.parents = Append(@, r.value)], r.value))
    /\ UNCHANGED <<artifact, base_url, repository, dir, pc, branch, meta, resolved,
                   files, result, parsevars, rendervars, poms,
                   resolvevars, xmlvars, versionsvars>>

\* the response for one imported BOM's POM: its future becomes ready, and
\* when it is the last one of the join_all the caller goes on
bom_response ==
    /\ cd_pc \in {"boms_parents", "boms_project"}
    /\ \E i \in 1..Len(tasks) :
        /\ tasks[i].state = "pending"
        /\ LET k == tasks[i].req
               a == Answered(CollectState, k)
               c == [a EXCEPT !.tasks[i].state = "ready",
                              !.tasks[i].output = PomResult(a, k)]
           IN IF ~AllReady(c.tasks) THEN Become(c)
              ELSE IF cd_pc = "boms_parents" THEN Become(parent_boms_joined(c))
              ELSE Become(project_boms_joined(c))
    /\ UNCHANGED <<artifact, base_url, repository, dir, pc, branch, meta, resolved,
                   files, result, parsevars, rendervars, poms,
                   resolvevars, xmlvars, versionsvars>>

\* the POMs of the repository collect_dependencies is run against
str_g == <<"g">>
str_v == <<"v">>
str_bv == <<"b","v">>
str_dv == <<"d","v">>
str_project_version == <<"p","r","o","j","e","c","t",".","v","e","r","s","i","o","n">>
\* ${name}
Placeholder(name) == <<"$", "{">> \o name \o <<"}">>

\* the coordinate g:a with an optional version and an optional type
GA(a, v, e) ==
    [group_id |-> str_g, artifact_id |-> a, version |-> v, extension |-> e,
     classifier |-> None]

\* what PomParser::parse_project has read of a POM at EndDocument
Pom(a, v, parent, dm, deps, props) ==
    [state |-> [group_id |-> Some(str_g), artifact_id |-> Some(a), version |-> v,
                extension |-> None, classifier |-> None],
     parent |-> parent, dependency_management |-> DependencyManagement(dm),
     dependencies |-> deps, properties |-> props]

\* the POM of the requested project g:a:1: six dependencyManagement entries
\* (the import of the BOM g:b:1, its own managed version of g:y, an entry of
\* scope import that is no pom, a pom entry that is no import, the import of
\* the BOM g:d:1, the import of g:b:1 a second time) and six dependencies
ProjectPom(v, has_parent, props) ==
    Pom(<<"a">>, v,
        IF has_parent THEN Some(GA(<<"p">>, Some(<<"1">>), None)) ELSE None,
        << Dependency(GA(<<"b">>, Some(<<"1">>), Some(str_pom)), Some(str_import)),
           Dependency(GA(<<"y">>, Some(<<"9">>), None), None),
           Dependency(GA(<<"e">>, Some(<<"1">>), None), Some(str_import)),
           Dependency(GA(<<"f">>, Some(<<"1">>), Some(str_pom)), None),
           Dependency(GA(<<"d">>, Some(<<"1">>), Some(str_pom)), Some(str_import)),
           Dependency(GA(<<"b">>, Some(<<"1">>), Some(str_pom)), Some(str_import)) >>,
        << Dependency(GA(<<"x">>, Some(Placeholder(str_v)), None), None),
           Dependency(GA(<<"y">>, None, None), None),
           Dependency(GA(<<"x">>, Some(Placeholder(str_v)), None), None),
           Dependency(GA(<<"z">>, None, None), Some(<<"t">>)),
           Dependency(GA(<<"w">>, Some(Placeholder(str_project_version)), None), None),
           Dependency(GA(<<"u">>, None, None), None) >>,
        props)

\* the POM of the parent g:p:1, which imports the BOM g:c:1
ParentPom(has_parent, props) ==
    Pom(<<"p">>, Some(<<"1">>),
        IF has_parent THEN Some(GA(<<"q">>, Some(<<"1">>), None)) ELSE None,
        << Dependency(GA(<<"c">>, Some(<<"1">>), Some(str_pom)), Some(str_import)) >>,
        << Dependency(GA(<<"t">>, Some(<<"1">>), None), None) >>,
        props)

\* the POM of the root ancestor g:q:1, which imports the BOM g:r:1 and, as
\* the project does, the BOM g:d:1; with by_property it gives the version of
\* g:d as ${dv} and defines the property dv as 1; with cyclic it names g:p:1,
\* whose parent it is, as its own parent
RootPom(props, by_property, cyclic) ==
    Pom(<<"q">>, Some(<<"1">>),
        IF cyclic THEN Some(GA(<<"p">>, Some(<<"1">>), None)) ELSE None,
        << Dependency(GA(<<"r">>, Some(<<"1">>), Some(str_pom)), Some(str_import)),
           Dependency(GA(<<"d">>,
                         IF by_property THEN Some(Placeholder(str_dv)) ELSE Some(<<"1">>),
                         Some(str_pom)),
                      Some(str_import)) >>,
        <<>>,
        IF by_property THEN extend(props, str_dv :> <<"1">>) ELSE props)

\* the POM of the BOM g:b:1
BomB ==
    Pom(<<"b">>, Some(<<"1">>), None,
        << Dependency(GA(<<"y">>, Some(Placeholder(str_bv)), None), None) >>,
        << Dependency(GA(<<"z">>, Some(<<"3">>), None), None) >>,
        str_bv :> <<"7">>)

\* the POM of the BOM g:c:1
BomC ==
    Pom(<<"c">>, Some(<<"1">>), None,
        << Dependency(GA(<<"y">>, Some(<<"8">>), None), None),
           Dependency(GA(<<"z">>, Some(<<"8">>), None), None),
           Dependency(GA(<<"k">>, Some(<<"8">>), None), None) >>,
        <<>>, EmptyMap)

\* the POM of the BOM g:d:1
BomD ==
    Pom(<<"d">>, Some(<<"1">>), None,
        << Dependency(GA(<<"z">>, Some(<<"5">>), None), None) >>,
        <<>>, EmptyMap)

\* the answers to the GET of a pom.xml: the POM, a body that is no POM, or
\* a status that is no success
Served(pom) == [status |-> 200, pom |-> Some(pom)]
Unreadable == [status |-> 200, pom |-> None]
NotFound == [status |-> 404, pom |-> None]

\* the properties a POM may define for the name v
PropertiesOf(value) == {EmptyMap, str_v :> value}

\* the POM of the BOM g:r:1
BomR ==
    Pom(<<"r">>, Some(<<"1">>), None,
        << Dependency(GA(<<"k">>, Some(<<"6">>), None), None) >>,
        <<>>, EmptyMap)

PomPath(a) == ProjectReference_path(GA(a, Some(<<"1">>), None))

Repositories ==
    {  PomPath(<<"a">>) :> pa @@ PomPath(<<"p">>) :> pp @@ PomPath(<<"q">>) :> pq
    @@ PomPath(<<"b">>) :> pb @@ PomPath(<<"c">>) :> pc_ @@ PomPath(<<"d">>) :> pd
    @@ PomPath(<<"r">>) :> pr :
        pa \in {NotFound, Unreadable}
               \cup {Served(ProjectPom(v, hp, props)) :
                        v \in {None, Some(<<"1">>)}, hp \in BOOLEAN,
                        props \in PropertiesOf(<<"4">>)},
        pp \in {NotFound, Unreadable}
               \cup {Served(ParentPom(hp, props)) :
                        hp \in BOOLEAN, props \in PropertiesOf(<<"5">>)},
        pq \in {NotFound}
               \cup {Served(RootPom(props, bp, cy)) :
                        props \in PropertiesOf(<<"6">>), bp \in BOOLEAN,
                        cy \in BOOLEAN},
        pb \in {NotFound, Unreadable, Served(BomB)},
        pc_ \in {NotFound, Served(BomC)},
        pd \in {NotFound, Served(BomD)},
        pr \in {NotFound, Served(BomR)} }

InitCollect ==
    /\ artifact = GA(<<"a">>, Some(<<"1">>), None)
    /\ base_url = [host |-> <<"h">>, path |-> <<Slash, "m">>]
    /\ repository = Repository_both(base_url)
    /\ dir = <<"d">>
    /\ branch = "none"
    /\ meta = None
    /\ resolved = None
    /\ requests = <<>>
    /\ files = {}
    /\ result = NoResult
    /\ pc = "idle"
    /\ ParseIdle
    /\ RenderIdle
    /\ poms \in Repositories
    /\ cd_pc = "start"
    /\ project = None
    /\ parents = <<>>
    /\ tasks = <<>>
    /\ boms = EmptyMap
    /\ cd_props = EmptyMap
    /\ collected = NoResult
    /\ ResolveIdle
    /\ ToolsIdle

NextCollect ==
    \/ collect_dependencies
    \/ project_response
    \/ parent_response
    \/ bom_response

SpecCollect == InitCollect /\ [][NextCollect]_vars

-----------------------------------------------------------------------------
\* cli/src/main.rs: the resolve-project command, with the downloads of the
\* collected dependencies as the futures of a join_all

\* the future of one resolver.download(a, lib_dir) call: its position, the
\* arm of the classification, the ResolvedArtifact, the index of the GET it
\* waits for and its output
DownloadTask(a) ==
    [artifact |-> a, pc |-> "start", branch |-> "none", resolved |-> None,
     req |-> 0, result |-> NoResult]

\* the state a future of the join_all works on: the log of GETs, the file
\* system and the future itself
TaskState(t) == [requests |-> requests, files |-> files, task |-> t]

\* return r from the future
task_return(x, r) == [x EXCEPT !.task.result = r, !.task.pc = "done"]

\* maven_metadata(path) up to the await of send()
task_metadata_send(x, path) ==
    LET u == metadata0_url(repository, path, str_maven_metadata_xml)
    IN IF u.ok
       THEN [x EXCEPT !.requests = Append(@, MetadataRequest(path, str_maven_metadata_xml,
                                                              u.url)),
                      !.task.req = Len(x.requests) + 1,
                      !.task.pc = "metadata"]
       ELSE task_return(x, Err("UrlError"))

\* download0(r, dir) up to the await of send()
task_download0_send(x, r) ==
    LET u == ResolvedArtifact_uri(r, repository)
        y == [x EXCEPT !.task.resolved = Some(r)]
    IN IF u.ok
       THEN [y EXCEPT !.requests = Append(@, ArtifactRequest(u.url)),
                      !.task.req = Len(x.requests) + 1,
                      !.task.pc = "artifact"]
       ELSE task_return(y, Err("UrlError"))

\* Resolver::download from the first poll to its first await (or its return)
task_download(x) ==
    LET a == x.task.artifact
    IN IF IsNone(a.version)
       THEN task_return([x EXCEPT !.task.branch = "no_version"],
                        Err("Message: No version set"))
       ELSE IF Artifact_is_snapshot(a)
       THEN IF snapshots_allowed(repository)
            THEN task_metadata_send([x EXCEPT !.task.branch = "snapshot"], Artifact_path(a))
            ELSE task_return([x EXCEPT !.task.branch = "snapshot"],
                             Err("Message: snapshots from a non-snapshot repository"))
       ELSE IF is_meta_version(Unwrap(a.version))
       THEN task_metadata_send([x EXCEPT !.task.branch = "meta"], Artifact_path(a))
       ELSE task_download0_send([x EXCEPT !.task.branch = "fixed"],
                                [artifact |-> a, resolved_version |-> Unwrap(a.version)])

\* Resolver::download from the response o of the metadata GET to the next
\* await (or the return)
task_metadata_response(x, o) ==
    LET a == x.task.artifact
        answered == [x EXCEPT !.requests[x.task.req].status = o.status]
        url == x.requests[x.task.req].url
    IN IF ~o.send THEN task_return(answered, Err("Reqwest"))
       ELSE IF ~is_success(o.status)
       THEN task_return(answered, GenericHttpError(url, o.status))
       ELSE IF ~o.parses THEN task_return(answered, Err("XMLMetadataDecodeError"))
       ELSE LET versioning == Unwrap(o.meta).versioning
            IN IF x.task.branch = "snapshot"
               THEN IF IsNone(versioning.snapshot) THEN task_return(answered, Panic)
                    ELSE task_download0_send(
                             answered,
                             [artifact |-> a,
                              resolved_version |-> snapshot_resolved_version(a, versioning)])
               ELSE LET r == maybe_resolved(Unwrap(a.version), versioning)
                    IN IF IsNone(r)
                       THEN task_return(answered,
                                        Err("Message: Failed to download artifact"))
                       ELSE task_download0_send(
                                answered, [artifact |-> a, resolved_version |-> Unwrap(r)])

\* download0 from the response o of the artifact GET to its return, writing
\* into the directory d
task_artifact_response(x, o, d) ==
    LET path == download0_path(Unwrap(x.task.resolved), d)
        answered == [x EXCEPT !.requests[x.task.req].status = o.status]
    IN IF ~o.send THEN task_return(answered, Err("Reqwest"))
       ELSE IF ~o.create THEN task_return(answered, Err("IO"))
       ELSE IF ~o.stream
       THEN task_return([answered EXCEPT !.files = File_create(@, path, "truncated")],
                        Err("Reqwest"))
       ELSE task_return([answered EXCEPT !.files = File_create(@, path, Body(o.status))],
                        Ok(path))

\* join_all(deps.iter().map(|a| resolver.download(a, lib_dir))) up to its
\* await: every future is polled once, in the order of deps
RECURSIVE spawn_downloads(_, _, _)
spawn_downloads(x, ts, ds) ==
    IF Len(ds) = 0 THEN [requests |-> x.requests, files |-> x.files, tasks |-> ts]
    ELSE LET y == task_download([x EXCEPT !.task = DownloadTask(Head(ds))])
         IN spawn_downloads(y, Append(ts, y.task), Tail(ds))

\* the futures of the join_all are all ready
AllDone(ts) == \A i \in 1..Len(ts) : ts[i].pc = "done"

\* lib_dir
lib_dir_of(path, is_flat) ==
    IF is_flat THEN path ELSE Path_join(path, <<"l","i","b">>)

\* the collected results of the join_all: the first Err in the order of deps,
\* or the paths
joined(ts) ==
    LET outputs == [i \in 1..Len(ts) |-> ts[i].result]
    IN IF FirstErr(outputs) # 0 THEN outputs[FirstErr(outputs)]
       ELSE OkValue([i \in 1..Len(ts) |-> ts[i].result.path])

\* the resolve-project command as one record
ResolveState ==
    [requests |-> requests, files |-> files, downloads |-> downloads,
     pc |-> pc, rp_pc |-> rp_pc, rp_result |-> rp_result]

\* the next state of the resolve-project command is s
BecomeResolve(s) ==
    /\ requests' = s.requests
    /\ files' = s.files
    /\ downloads' = s.downloads
    /\ pc' = s.pc
    /\ rp_pc' = s.rp_pc
    /\ rp_result' = s.rp_result

\* resolver.download(&coordinates, path) is called
main_download(s) == [s EXCEPT !.rp_pc = "main", !.pc = "start"]

\* joined?: the command ends with the error, or goes on to the download of
\* the project's own artifact
after_join(s) ==
    LET r == joined(s.downloads)
    IN IF r.kind # "Ok" THEN [s EXCEPT !.rp_pc = "done", !.rp_result = r]
       ELSE main_download(s)

\* a future of the join_all panicked: the panic unwinds through the join_all
\* and the command, and the other futures are dropped where they are
panicked(s) == [s EXCEPT !.rp_pc = "done", !.rp_result = Panic]

\* the command from the value of collect_dependencies to its next await
resolve_project ==
    /\ rp_pc = "start"
    /\ IF include_dependencies
       THEN LET x == spawn_downloads([requests |-> requests, files |-> files,
                                      task |-> DownloadTask(artifact)],
                                     <<>>, rp_deps)
                s == [ResolveState EXCEPT !.requests = x.requests, !.files = x.files,
                                           !.downloads = x.tasks, !.rp_pc = "deps"]
            IN IF AllDone(s.downloads) THEN BecomeResolve(after_join(s))
               ELSE BecomeResolve(s)
       ELSE BecomeResolve(main_download(ResolveState))
    /\ UNCHANGED <<artifact, base_url, repository, dir, branch, meta, resolved, result,
                   parsevars, rendervars, collectvars, include_dependencies, flatten,
                   rp_deps, xmlvars, versionsvars>>

\* what the repository may answer to the metadata GET of a dependency a
DepMetadataOutcomes(a) ==
    {o \in MetadataOutcomes : ~o.send \/ ~o.parses}
    \cup {[send |-> TRUE, status |-> 200, parses |-> TRUE,
           meta |-> Some(VersionedMetadata(a.group_id, a.artifact_id,
                                           Versioning(None, None, s, None)))] :
             s \in MetaSnapshots}

\* what the repository and the file system may do to the artifact GET of a
\* dependency
DepArtifactOutcomes ==
    {o \in ArtifactOutcomes :
        \/ ~o.send
        \/ o.status = 200
        \/ o.status = 404 /\ o.create /\ o.stream}

\* the response to the GET one future of the join_all waits for
dep_response ==
    /\ rp_pc = "deps"
    /\ \E i \in 1..Len(downloads) :
        /\ downloads[i].pc \in {"metadata", "artifact"}
        /\ \E x \in IF downloads[i].pc = "metadata"
                    THEN {task_metadata_response(TaskState(downloads[i]), o) :
                             o \in DepMetadataOutcomes(downloads[i].artifact)}
                    ELSE {task_artifact_response(TaskState(downloads[i]), o,
                                                 lib_dir_of(dir, flatten)) :
                             o \in DepArtifactOutcomes} :
            LET s == [ResolveState EXCEPT !.requests = x.requests, !.files = x.files,
                                           !.downloads[i] = x.task]
            IN IF x.task.result = Panic THEN BecomeResolve(panicked(s))
               ELSE IF AllDone(s.downloads) THEN BecomeResolve(after_join(s))
               ELSE BecomeResolve(s)
    /\ UNCHANGED <<artifact, base_url, repository, dir, branch, meta, resolved, result,
                   parsevars, rendervars, collectvars, include_dependencies, flatten,
                   rp_deps, xmlvars, versionsvars>>

\* the coordinates collect_dependencies may have given: with and without a
\* classifier, of another group, of another artifactId, of another type,
\* without a version, of a snapshot version
DepCoordinate(g, a, v, e, c) ==
    [group_id |-> g, artifact_id |-> a, version |-> v, extension |-> e,
     classifier |-> c]
str_c_e == <<"c",".","e">>
str_1_0 == <<"1",".","0">>
DepCandidates ==
    {DepCoordinate(str_c_e, <<"a">>, Some(str_1_0), None, None),
     DepCoordinate(str_c_e, <<"a">>, Some(str_1_0), None, Some(<<"s">>)),
     DepCoordinate(<<"c",".","f">>, <<"a">>, Some(str_1_0), None, None),
     DepCoordinate(str_c_e, <<"b">>, Some(str_1_0), None, None),
     DepCoordinate(str_c_e, <<"a">>, Some(str_1_0), Some(<<"w","a","r">>), None),
     DepCoordinate(str_c_e, <<"a">>, None, None, None),
     DepCoordinate(str_c_e, <<"a">>,
                   Some(<<"1",".","0","-","S","N","A","P","S","H","O","T">>), None, None)}
MaxDeps == 2
DepLists == UNION {[1..n -> DepCandidates] : n \in 0..MaxDeps}

InitResolve ==
    /\ include_dependencies \in BOOLEAN
    /\ artifact = DepCoordinate(str_c_e, <<"m">>,
                                IF include_dependencies THEN Some(str_1_0)
                                ELSE Some(<<"R","E","L","E","A","S","E">>),
                                None, None)
    /\ base_url = [host |-> <<"h">>, path |-> <<Slash, "m">>]
    /\ repository = Repository_both(base_url)
    /\ dir = <<"d">>
    /\ branch = "none"
    /\ meta = None
    /\ resolved = None
    /\ requests = <<>>
    /\ files = {}
    /\ result = NoResult
    /\ pc = "idle"
    /\ ParseIdle
    /\ RenderIdle
    /\ CollectIdle
    /\ flatten \in BOOLEAN
    /\ rp_deps \in IF include_dependencies THEN DepLists ELSE {<<>>}
    /\ downloads = <<>>
    /\ rp_pc = "start"
    /\ rp_result = NoResult
    /\ ToolsIdle

NextResolve ==
    \/ resolve_project
    \/ dep_response
    \/ download
    \/ metadata_response
    \/ artifact_response

SpecResolve == InitResolve /\ [][NextResolve]_vars

-----------------------------------------------------------------------------
\* the two concurrent fan-outs of the program: the fetches of the imported
\* BOMs inside collect_dependencies and the downloads of the resolve-project
\* command

InitFanOut ==
    \/ InitCollect
    \/ InitResolve

NextFanOut ==
    \/ collect_dependencies
    \/ project_response
    \/ parent_response
    \/ bom_response
    \/ resolve_project
    \/ dep_response
    \/ download
    \/ metadata_response
    \/ artifact_response

SpecFanOut == InitFanOut /\ [][NextFanOut]_vars

-----------------------------------------------------------------------------
\* xml::EventReader: a well-formed document as the events the reader gives

\* an element with text, and an element with child elements
Leaf(n, t) == [name |-> n, text |-> Some(t), children |-> <<>>]
Node(n, cs) == [name |-> n, text |-> None, children |-> cs]

\* XmlEvent
StartElement(n) == [kind |-> "StartElement", name |-> n, text |-> <<>>]
EndElement(n) == [kind |-> "EndElement", name |-> n, text |-> <<>>]
Characters(t) == [kind |-> "Characters", name |-> "", text |-> t]
EndDocument == [kind |-> "EndDocument", name |-> "", text |-> <<>>]

\* the events of an element: StartElement, its text, its children, EndElement
RECURSIVE ElementEvents(_)
RECURSIVE ChildrenEvents(_)
ChildrenEvents(cs) ==
    IF Len(cs) = 0 THEN <<>> ELSE ElementEvents(Head(cs)) \o ChildrenEvents(Tail(cs))
ElementEvents(e) ==
    <<StartElement(e.name)>>
    \o (IF IsSome(e.text) THEN <<Characters(Unwrap(e.text))>> ELSE <<>>)
    \o ChildrenEvents(e.children)
    \o <<EndElement(e.name)>>

\* the events of the document with root element e
XmlEvents(e) == ElementEvents(e) \o <<EndDocument>>

\* parser.next() at position i; a well-formed document closes every element
\* before EndDocument, which is the last event, so that the loop of a nested
\* parse never reads it (the model ends such a loop with an error)
next_event(evs, i) == IF i <= Len(evs) THEN evs[i] ELSE EndDocument

\* the value a nested parse returns and the position after it, or its error
Parsed(v, i) == [ok |-> TRUE, value |-> v, next |-> i]
Unexpected == [ok |-> FALSE]

IsStart(e, n) == e.kind = "StartElement" /\ e.name = n
IsEnd(e, n) == e.kind = "EndElement" /\ e.name = n

\* string_element: the next event must be Characters; the event after it is
\* consumed
string_element(evs, i) ==
    IF next_event(evs, i).kind = "Characters"
    THEN Parsed(next_event(evs, i).text, i + 2)
    ELSE Unexpected

-----------------------------------------------------------------------------
\* lib/src/xml/mod.rs, lib/src/project.rs: PomParser

\* ArtifactState::default()
ArtifactState_default ==
    [group_id |-> None, artifact_id |-> None, version |-> None,
     extension |-> None, classifier |-> None]

\* the field of ArtifactState an element of the name sets
StateField(n) ==
    CASE n = "groupId" -> "group_id"
      [] n = "artifactId" -> "artifact_id"
      [] n = "version" -> "version"
      [] n \in {"packaging", "type"} -> "extension"
      [] n = "classifier" -> "classifier"

\* parse_parent: the loop from position i with the state read so far
RECURSIVE parse_parent(_, _, _)
parse_parent(evs, i, state) ==
    LET e == next_event(evs, i)
    IN IF e.kind = "StartElement" /\ e.name \in {"groupId", "artifactId", "version"}
       THEN LET id == string_element(evs, i + 1)
            IN IF ~id.ok THEN Unexpected
               ELSE parse_parent(evs, id.next,
                                 [state EXCEPT ![StateField(e.name)] = Some(id.value)])
       ELSE IF IsEnd(e, "parent")
       THEN LET a == ArtifactState_to_artifact(state)
            IN IF a.ok THEN Parsed(a.value, i + 1) ELSE Unexpected
       ELSE IF e.kind = "EndDocument" THEN Unexpected
       ELSE parse_parent(evs, i + 1, state)

\* parse_dependency: the loop from position i
RECURSIVE parse_dependency(_, _, _, _)
parse_dependency(evs, i, state, scope) ==
    LET e == next_event(evs, i)
    IN IF e.kind = "StartElement"
          /\ e.name \in {"groupId", "artifactId", "version", "type", "classifier"}
       THEN LET id == string_element(evs, i + 1)
            IN IF ~id.ok THEN Unexpected
               ELSE parse_dependency(evs, id.next,
                                     [state EXCEPT ![StateField(e.name)] = Some(id.value)],
                                     scope)
       ELSE IF IsStart(e, "scope")
       THEN LET id == string_element(evs, i + 1)
            IN IF ~id.ok THEN Unexpected
               ELSE parse_dependency(evs, id.next, state, Some(id.value))
       ELSE IF IsEnd(e, "dependency")
       THEN LET a == ArtifactState_to_artifact(state)
            IN IF a.ok THEN Parsed(Dependency(a.value, scope), i + 1) ELSE Unexpected
       ELSE IF e.kind = "EndDocument" THEN Unexpected
       ELSE parse_dependency(evs, i + 1, state, scope)

\* parse_dependencies: the loop from position i
RECURSIVE parse_dependencies(_, _, _)
parse_dependencies(evs, i, state) ==
    LET e == next_event(evs, i)
    IN IF IsEnd(e, "dependencies") THEN Parsed(state, i + 1)
       ELSE IF IsStart(e, "dependency")
       THEN LET d == parse_dependency(evs, i + 1, ArtifactState_default, None)
            IN IF ~d.ok THEN Unexpected
               ELSE parse_dependencies(evs, d.next, Append(state, d.value))
       ELSE IF e.kind = "EndDocument" THEN Unexpected
       ELSE parse_dependencies(evs, i + 1, state)

\* parse_dependency_management: the loop from position i
RECURSIVE parse_dependency_management(_, _, _)
parse_dependency_management(evs, i, state) ==
    LET e == next_event(evs, i)
    IN IF IsStart(e, "dependencies")
       THEN LET ds == parse_dependencies(evs, i + 1, <<>>)
            IN IF ~ds.ok THEN Unexpected
               ELSE parse_dependency_management(evs, ds.next,
                                                DependencyManagement(ds.value))
       ELSE IF IsEnd(e, "dependencyManagement") THEN Parsed(state, i + 1)
       ELSE IF e.kind = "EndDocument" THEN Unexpected
       ELSE parse_dependency_management(evs, i + 1, state)

\* parse_properties: the loop from position i
RECURSIVE parse_properties(_, _, _)
parse_properties(evs, i, state) ==
    LET e == next_event(evs, i)
    IN IF IsEnd(e, "properties") THEN Parsed(state, i + 1)
       ELSE IF e.kind = "StartElement"
       THEN LET v == string_element(evs, i + 1)
            IN IF ~v.ok THEN Unexpected
               ELSE parse_properties(evs, v.next, extend(state, e.name :> v.value))
       ELSE IF e.kind = "EndDocument" THEN Unexpected
       ELSE parse_properties(evs, i + 1, state)

\* what parse_project holds before its loop
Pom_default ==
    [state |-> ArtifactState_default, parent |-> None,
     dependency_management |-> DependencyManagement(<<>>),
     dependencies |-> <<>>, properties |-> EmptyMap]

\* parse_project: the loop from position i with what has been read so far
RECURSIVE parse_project(_, _, _)
parse_project(evs, i, pom) ==
    LET e == next_event(evs, i)
    IN IF e.kind = "StartElement"
          /\ e.name \in {"groupId", "artifactId", "version", "packaging", "classifier"}
       THEN LET id == string_element(evs, i + 1)
            IN IF ~id.ok THEN ParseErr
               ELSE parse_project(evs, id.next,
                                  [pom EXCEPT !.state[StateField(e.name)] = Some(id.value)])
       ELSE IF IsStart(e, "parent")
       THEN LET p == parse_parent(evs, i + 1, ArtifactState_default)
            IN IF ~p.ok THEN ParseErr
               ELSE parse_project(evs, p.next, [pom EXCEPT !.parent = Some(p.value)])
       ELSE IF IsStart(e, "dependencyManagement")
       THEN LET dm == parse_dependency_management(evs, i + 1, DependencyManagement(<<>>))
            IN IF ~dm.ok THEN ParseErr
               ELSE parse_project(evs, dm.next,
                                  [pom EXCEPT !.dependency_management = dm.value])
       ELSE IF IsStart(e, "dependencies")
       THEN LET ds == parse_dependencies(evs, i + 1, <<>>)
            IN IF ~ds.ok THEN ParseErr
               ELSE parse_project(evs, ds.next, [pom EXCEPT !.dependencies = ds.value])
       ELSE IF IsStart(e, "properties")
       THEN LET ps == parse_properties(evs, i + 1, EmptyMap)
            IN IF ~ps.ok THEN ParseErr
               ELSE parse_project(evs, ps.next, [pom EXCEPT !.properties = ps.value])
       ELSE IF e.kind = "EndDocument" THEN PomParser_parse_project(pom)
       ELSE parse_project(evs, i + 1, pom)

\* PomParser::parse
PomParser_parse(doc) == parse_project(XmlEvents(doc), 1, Pom_default)

\* the POM documents: the project's own coordinate elements, a parent with
\* or without version or groupId, a <build> block with a plugin (its
\* coordinate, or its own dependencies) before or after them, dependencies
\* and properties
Coordinate(g, a, v) ==
    (IF IsSome(g) THEN <<Leaf("groupId", Unwrap(g))>> ELSE <<>>)
    \o (IF IsSome(a) THEN <<Leaf("artifactId", Unwrap(a))>> ELSE <<>>)
    \o (IF IsSome(v) THEN <<Leaf("version", Unwrap(v))>> ELSE <<>>)
DependencyElement(g, a, v) == Node("dependency", Coordinate(g, a, v))
Plugin(cs) == <<Node("build", <<Node("plugins", <<Node("plugin", cs)>>)>>)>>
PomParents ==
    {<<>>,
     <<Node("parent", Coordinate(Some(<<"g">>), Some(<<"p">>), Some(<<"1">>)))>>,
     <<Node("parent", Coordinate(Some(<<"g">>), Some(<<"p">>), None))>>,
     <<Node("parent", Coordinate(None, Some(<<"p">>), Some(<<"1">>)))>>}
PomBuilds ==
    {<<>>,
     Plugin(Coordinate(Some(<<"m">>), Some(<<"n">>), Some(<<"9">>))),
     Plugin(Coordinate(Some(<<"m">>), Some(<<"n">>), Some(<<"9">>))
            \o <<Node("dependencies",
                      <<DependencyElement(Some(<<"m">>), Some(<<"o">>), Some(<<"8">>))>>)>>)}
PomDependencies ==
    {<<>>,
     <<Node("dependencies",
            <<DependencyElement(Some(<<"g">>), Some(<<"x">>), Some(<<"2">>)),
              Node("dependency",
                   Coordinate(Some(<<"g">>), Some(<<"y">>), None)
                   \o <<Leaf("scope", <<"t">>)>>)>>)>>,
     <<Node("dependencies", <<DependencyElement(Some(<<"g">>), None, Some(<<"2">>))>>)>>}
PomProperties == {<<>>, <<Node("properties", <<Leaf("v", <<"4">>)>>)>>}
PomDocuments ==
    {Node("project",
          (IF first THEN b ELSE <<>>)
          \o Coordinate(g, Some(<<"a">>), v) \o pa \o ds \o ps
          \o (IF first THEN <<>> ELSE b)) :
        first \in BOOLEAN, b \in PomBuilds, g \in {None, Some(<<"g">>)},
        v \in {None, Some(<<"1">>)}, pa \in PomParents, ds \in PomDependencies,
        ps \in PomProperties}

InitPom ==
    /\ DownloadUnused
    /\ ParseIdle
    /\ RenderIdle
    /\ CollectIdle
    /\ ResolveIdle
    /\ document \in PomDocuments
    /\ pom_result = None
    /\ md_result = None
    /\ VersionsIdle

\* a call of PomParser::parse on the document
pom_parse ==
    /\ pom_result = None
    /\ pom_result' = Some(PomParser_parse(document))
    /\ UNCHANGED <<dlvars, parsevars, rendervars, collectvars, resolvevars, document,
                   md_result, versionsvars>>

NextPom == pom_parse

SpecPom == InitPom /\ [][NextPom]_vars

-----------------------------------------------------------------------------
\* lib/src/metadata.rs: VersionedMetadata::parse
\* (its string_element is the one of PomParser, word for word)

\* Versioning::default()
Versioning_default ==
    [latest |-> None, release |-> None, versions |-> None,
     last_updated |-> None, snapshot |-> None, snapshot_versions |-> None]

I32Max == 2147483647
I32Min == (0 - I32Max) - 1
IsDigit(c) == \E d \in 1..10 : DigitChars[d] = c
DigitValue(c) == (CHOOSE d \in 1..10 : DigitChars[d] = c) - 1
\* the digits of s from position k on, added to acc with checked_mul and
\* checked_add (a positive number) or checked_sub (a negative one)
RECURSIVE checked_digits(_, _, _, _)
checked_digits(s, k, acc, negative) ==
    IF k > Len(s) THEN ParseOk(acc)
    ELSE IF ~IsDigit(s[k]) THEN ParseErr
    ELSE IF negative
    THEN IF acc >= (I32Min + DigitValue(s[k]) + 9) \div 10
         THEN checked_digits(s, k + 1, acc * 10 - DigitValue(s[k]), negative)
         ELSE ParseErr
    ELSE IF acc <= (I32Max - DigitValue(s[k])) \div 10
         THEN checked_digits(s, k + 1, acc * 10 + DigitValue(s[k]), negative)
         ELSE ParseErr
\* str::parse::<i32>: an optional sign, then digits only, at least one, and a
\* value an i32 holds
parse_i32(s) ==
    LET signed == s /= <<>> /\ s[1] \in {"+", "-"}
        digits == IF signed THEN Tail(s) ELSE s
    IN  IF digits = <<>> THEN ParseErr
        ELSE checked_digits(digits, 1, 0, signed /\ s[1] = "-")

\* the match of parse_snapshot on (timestamp, build_number)
snapshot_result(timestamp, build_number) ==
    IF IsSome(timestamp) /\ IsSome(build_number)
    THEN ParseOk(Snapshot(Unwrap(timestamp), Unwrap(build_number)))
    ELSE ParseErr

\* VersionedMetadata::parse_snapshot, after the StartElement of <snapshot>
RECURSIVE parse_snapshot(_, _, _, _)
parse_snapshot(evs, i, timestamp, build_number) ==
    LET e == next_event(evs, i) IN
    IF IsEnd(e, "snapshot")
    THEN LET r == snapshot_result(timestamp, build_number)
         IN  IF r.ok THEN Parsed(r.value, i + 1) ELSE Unexpected
    ELSE IF IsStart(e, "timestamp")
    THEN LET s == string_element(evs, i + 1)
         IN  IF s.ok THEN parse_snapshot(evs, s.next, Some(s.value), build_number)
             ELSE Unexpected
    ELSE IF IsStart(e, "buildNumber")
    THEN LET s == string_element(evs, i + 1)
         IN  IF s.ok /\ parse_i32(s.value).ok
             THEN parse_snapshot(evs, s.next, timestamp, Some(parse_i32(s.value).value))
             ELSE Unexpected
    ELSE IF e.kind = "EndDocument" THEN Unexpected
    ELSE parse_snapshot(evs, i + 1, timestamp, build_number)

\* the locals of parse_snapshot_version
SnapshotVersionState_default ==
    [value |-> None, updated |-> None, extension |-> None, classifier |-> None]

\* the match of parse_snapshot_version on (value, updated)
snapshot_version_result(state) ==
    IF IsSome(state.value) /\ IsSome(state.updated)
    THEN ParseOk(SnapshotVersion_new(Unwrap(state.value), Unwrap(state.updated),
                                     state.classifier, state.extension))
    ELSE ParseErr

\* VersionedMetadata::parse_snapshot_version, after the StartElement of
\* <snapshotVersion>
RECURSIVE parse_snapshot_version(_, _, _)
parse_snapshot_version(evs, i, state) ==
    LET e == next_event(evs, i) IN
    IF IsEnd(e, "snapshotVersion")
    THEN LET r == snapshot_version_result(state)
         IN  IF r.ok THEN Parsed(r.value, i + 1) ELSE Unexpected
    ELSE IF e.kind = "StartElement"
            /\ e.name \in {"value", "updated", "extension", "classifier"}
    THEN LET s == string_element(evs, i + 1)
         IN  IF s.ok
             THEN parse_snapshot_version(evs, s.next,
                                         [state EXCEPT ![e.name] = Some(s.value)])
             ELSE Unexpected
    ELSE IF e.kind = "EndDocument" THEN Unexpected
    ELSE parse_snapshot_version(evs, i + 1, state)

\* VersionedMetadata::parse_versionining, after the StartElement of
\* <versioning>; versions and snapshots are its two local lists
RECURSIVE parse_versionining(_, _, _, _, _)
parse_versionining(evs, i, acc, versions, snapshots) ==
    \* acc is the local named parsed
    LET e == next_event(evs, i) IN
    IF IsEnd(e, "versioning") THEN Parsed(acc, i + 1)
    ELSE IF IsStart(e, "latest")
    THEN LET s == string_element(evs, i + 1)
         IN  IF s.ok
             THEN parse_versionining(evs, s.next,
                      [acc EXCEPT !.latest = Some(s.value)], versions, snapshots)
             ELSE Unexpected
    ELSE IF IsStart(e, "release")
    THEN LET s == string_element(evs, i + 1)
         IN  IF s.ok
             THEN parse_versionining(evs, s.next,
                      [acc EXCEPT !.release = Some(s.value)], versions, snapshots)
             ELSE Unexpected
    ELSE IF IsStart(e, "version")
    THEN LET s == string_element(evs, i + 1)
         IN  IF s.ok
             THEN parse_versionining(evs, s.next, acc,
                                     Append(versions, s.value), snapshots)
             ELSE Unexpected
    ELSE IF IsStart(e, "lastUpdated")
    THEN LET s == string_element(evs, i + 1)
         IN  IF s.ok
             THEN parse_versionining(evs, s.next,
                      [acc EXCEPT !.last_updated = Some(s.value)], versions, snapshots)
             ELSE Unexpected
    ELSE IF IsEnd(e, "versions")
    THEN parse_versionining(evs, i + 1,
             [acc EXCEPT !.versions = Some(versions)], versions, snapshots)
    ELSE IF IsStart(e, "snapshot")
    THEN LET s == parse_snapshot(evs, i + 1, None, None)
         IN  IF s.ok
             THEN parse_versionining(evs, s.next,
                      [acc EXCEPT !.snapshot = Some(s.value)], versions, snapshots)
             ELSE Unexpected
    ELSE IF IsStart(e, "snapshotVersion")
    THEN LET s == parse_snapshot_version(evs, i + 1, SnapshotVersionState_default)
         IN  IF s.ok
             THEN parse_versionining(evs, s.next, acc, versions,
                                     Append(snapshots, s.value))
             ELSE Unexpected
    ELSE IF IsEnd(e, "snapshotVersions")
    THEN parse_versionining(evs, i + 1,
             [acc EXCEPT !.snapshot_versions = Some(snapshots)], versions, snapshots)
    ELSE IF e.kind = "EndDocument" THEN Unexpected
    ELSE parse_versionining(evs, i + 1, acc, versions, snapshots)

\* the match of parse on (group_id, artifact_id, versioning) at EndDocument
metadata_accept_without_versioning(group_id, artifact_id, versioning) ==
    IF IsSome(group_id) /\ IsSome(artifact_id)
    THEN ParseOk(VersionedMetadata(Unwrap(group_id), Unwrap(artifact_id),
                                   UnwrapOr(versioning, Versioning_default)))
    ELSE ParseErr
metadata_result(group_id, artifact_id, versioning) ==
    IF IsSome(group_id) /\ IsSome(artifact_id) /\ IsSome(versioning)
    THEN ParseOk(VersionedMetadata(Unwrap(group_id), Unwrap(artifact_id),
                                   Unwrap(versioning)))
    ELSE ParseErr

\* the loop of VersionedMetadata::parse
RECURSIVE metadata_loop(_, _, _, _, _)
metadata_loop(evs, i, group_id, artifact_id, versioning) ==
    LET e == next_event(evs, i) IN
    IF e.kind = "EndDocument" THEN metadata_result(group_id, artifact_id, versioning)
    ELSE IF IsStart(e, "groupId")
    THEN LET s == string_element(evs, i + 1)
         IN  IF s.ok
             THEN metadata_loop(evs, s.next, Some(s.value), artifact_id, versioning)
             ELSE ParseErr
    ELSE IF IsStart(e, "artifactId")
    THEN LET s == string_element(evs, i + 1)
         IN  IF s.ok
             THEN metadata_loop(evs, s.next, group_id, Some(s.value), versioning)
             ELSE ParseErr
    ELSE IF IsStart(e, "versioning")
    THEN LET s == parse_versionining(evs, i + 1, Versioning_default, <<>>, <<>>)
         IN  IF s.ok
             THEN metadata_loop(evs, s.next, group_id, artifact_id, Some(s.value))
             ELSE ParseErr
    ELSE metadata_loop(evs, i + 1, group_id, artifact_id, versioning)

\* VersionedMetadata::parse
VersionedMetadata_parse(doc) == metadata_loop(XmlEvents(doc), 1, None, None, None)

\* maven-metadata.xml documents: each of groupId, artifactId and versioning
\* present or not, a version element of the metadata itself, and in
\* versioning every child present or not, whole or incomplete
\* I32Max + 1
str_i32_overflow == <<"2","1","4","7","4","8","3","6","4","8">>
MdOptional(n, t) == {<<>>, <<Leaf(n, t)>>}
MdVersions ==
    {<<>>, <<Node("versions", <<>>)>>,
     <<Node("versions", <<Leaf("version", <<"1">>), Leaf("version", <<"2">>)>>)>>}
MdSnapshots ==
    {<<>>,
     <<Node("snapshot", <<Leaf("timestamp", <<"t">>), Leaf("buildNumber", <<"7">>)>>)>>,
     <<Node("snapshot", <<Leaf("buildNumber", <<"-","7">>),
                          Leaf("localCopy", <<"y">>)>>)>>,
     <<Node("snapshot", <<Leaf("timestamp", <<"t">>)>>)>>,
     <<Node("snapshot", <<Leaf("timestamp", <<"t">>), Leaf("buildNumber", <<"x">>)>>)>>,
     <<Node("snapshot", <<Leaf("timestamp", <<"t">>),
                          Leaf("buildNumber", str_i32_overflow)>>)>>}
MdSnapshotVersions ==
    {<<>>, <<Node("snapshotVersions", <<>>)>>,
     <<Node("snapshotVersions",
            <<Node("snapshotVersion", <<Leaf("extension", str_jar),
                                        Leaf("value", <<"2">>),
                                        Leaf("updated", <<"u">>)>>),
              Node("snapshotVersion", <<Leaf("classifier", <<"s">>),
                                        Leaf("value", <<"2">>),
                                        Leaf("updated", <<"u">>)>>)>>)>>,
     <<Node("snapshotVersions",
            <<Node("snapshotVersion", <<Leaf("value", <<"2">>)>>)>>)>>}
MdVersionings ==
    {<<>>} \cup
    {<<Node("versioning", l \o r \o vs \o lu \o s \o sv)>> :
        l \in MdOptional("latest", <<"2">>),
        r \in {<<>>, <<Leaf("release", <<"1">>)>>, <<Node("release", <<>>)>>},
        vs \in MdVersions,
        lu \in MdOptional("lastUpdated", <<"u">>),
        s \in MdSnapshots,
        sv \in MdSnapshotVersions}
MetadataDocuments ==
    {Node("metadata", g \o a \o v \o vg) :
        g \in MdOptional("groupId", str_g),
        a \in MdOptional("artifactId", <<"a">>),
        v \in MdOptional("version", <<"2">>),
        vg \in MdVersionings}

InitMetadata ==
    /\ DownloadUnused
    /\ ParseIdle
    /\ RenderIdle
    /\ CollectIdle
    /\ ResolveIdle
    /\ VersionsIdle
    /\ document \in MetadataDocuments
    /\ pom_result = None
    /\ md_result = None

\* VersionedMetadata::parse(document)
md_parse ==
    /\ md_result = None
    /\ md_result' = Some(VersionedMetadata_parse(document))
    /\ UNCHANGED <<dlvars, parsevars, rendervars, collectvars, resolvevars, document,
                   pom_result, versionsvars>>

NextMetadata == md_parse

SpecMetadata == InitMetadata /\ [][NextMetadata]_vars

-----------------------------------------------------------------------------
\* cli/src/main.rs: the versions command, arm Some(Select::Versions), on the
\* versioning.versions of the metadata it fetched

Newline == "\n"
\* size.unwrap_or(10)
DefaultSize == 10

\* Vec::reverse
Vec_reverse_identity(v) == v
Vec_reverse(v) == [i \in 1..Len(v) |-> v[Len(v) + 1 - i]]

\* Iterator::take
take(v, n) == SubSeq(v, 1, IF n < Len(v) THEN n ELSE Len(v))

\* fold(String::new(), |acc, version| acc + version.as_ref() + "\n")
RECURSIVE fold_lines(_)
fold_lines(v) ==
    IF v = <<>> THEN <<>>
    ELSE fold_lines(SubSeq(v, 1, Len(v) - 1)) \o v[Len(v)] \o <<Newline>>

\* what the arm prints, or the bail!("no versions found")
select_versions(versions, size) ==
    IF IsNone(versions) THEN ParseErr
    ELSE ParseOk(fold_lines(take(Vec_reverse(Unwrap(versions)),
                                 UnwrapOr(size, DefaultSize))))

\* the versions of a metadata, in deploy order: n versions numbered from
\* first on, the numbers wrapping after MaxVersions
MaxVersions == 12
VersionLists ==
    {[i \in 1..n |-> NatToStr(((first + i - 2) % MaxVersions) + 1)] :
        n \in 0..MaxVersions, first \in {1, 8}}

InitVersions ==
    /\ DownloadUnused
    /\ ParseIdle
    /\ RenderIdle
    /\ CollectIdle
    /\ ResolveIdle
    /\ XmlIdle
    /\ sel_versions \in {None} \cup {Some(v) : v \in VersionLists}
    /\ sel_size \in {None} \cup {Some(n) : n \in 0..(MaxVersions + 1)}
    /\ sel_out = None

\* versions --select versions [--size N]
versions_select ==
    /\ sel_out = None
    /\ sel_out' = Some(select_versions(sel_versions, sel_size))
    /\ UNCHANGED <<dlvars, parsevars, rendervars, collectvars, resolvevars, xmlvars,
                   sel_versions, sel_size>>

NextVersions == versions_select

SpecVersions == InitVersions /\ [][NextVersions]_vars

-----------------------------------------------------------------------------
\* Properties

LastRequest == requests[Len(requests)]
ArtifactRequests == {i \in 1..Len(requests) : requests[i].kind = "artifact"}
MetadataRequests == {i \in 1..Len(requests) : requests[i].kind = "metadata"}
\* the path segments of a url
Segments(url) == split(url.path, Slash)
\* <artifactId>-<version>[-<classifier>].<extension or jar>
FileNameWith(a, version) ==
    a.artifact_id \o <<Dash>> \o version
    \o (IF IsSome(a.classifier) THEN <<Dash>> \o Unwrap(a.classifier) ELSE <<>>)
    \o <<Dot>> \o (IF IsSome(a.extension) THEN Unwrap(a.extension) ELSE str_jar)
\* the version classes of the specification
IsSnapshotVersion(v) ==
    /\ Len(v) >= 9
    /\ SubSeq(v, Len(v) - 8, Len(v)) = <<"-","S","N","A","P","S","H","O","T">>
IsMetaVersion(v) ==
    to_lowercase(v) \in {<<"l","a","t","e","s","t">>, <<"r","e","l","e","a","s","e">>}
IsReleaseVersion(v) == to_lowercase(v) = <<"r","e","l","e","a","s","e">>

\* C1: when the artifact GET is answered with a non-2xx status, download
\* returns Err(GenericHttpError{url, status}) with the url and status of that
\* GET, never Ok(path), and no file holds the response body.  (Stated for
\* the runs in which neither the transfer nor the file system fails.)
C1_Non2xxIsHttpError ==
    (/\ pc = "done"
     /\ requests # <<>>
     /\ LastRequest.kind = "artifact"
     /\ LastRequest.status # 0
     /\ ~(LastRequest.status \in 200..299)
     /\ result.kind = "Err" => result.error \notin {"Reqwest", "IO"})
    => /\ result = GenericHttpError(LastRequest.url, LastRequest.status)
       /\ files = {}

\* C2: the path download returns is
\* <dir>/<artifactId>-<resolvedVersion>[-<classifier>].<extension or jar>,
\* and that file was written.
C2_LocalFileNameIsResolved ==
    result.kind = "Ok"
    => /\ result.path = dir \o <<Slash>>
                        \o FileNameWith(artifact, Unwrap(resolved).resolved_version)
       /\ \E f \in files : f.path = result.path

\* C3: for a meta-version coordinate the metadata is fetched at the
\* unversioned path <group with slashes>/<artifactId>/maven-metadata.xml, and
\* the version resolves to versioning.release for release and to
\* versioning.latest for latest.
C3_MetaVersionUsesUnversionedMetadata ==
    (/\ pc # "start"
     /\ IsSome(artifact.version)
     /\ ~IsSnapshotVersion(Unwrap(artifact.version))
     /\ IsMetaVersion(Unwrap(artifact.version)))
    => /\ requests # <<>>
       /\ requests[1].kind = "metadata"
       /\ requests[1].path = replace(artifact.group_id, Dot, Slash)
                             \o <<Slash>> \o artifact.artifact_id
       /\ requests[1].file = str_maven_metadata_xml
       /\ IsSome(resolved) =>
            /\ IsSome(meta)
            /\ Some(Unwrap(resolved).resolved_version) =
                 (IF IsReleaseVersion(Unwrap(artifact.version))
                  THEN Unwrap(meta).versioning.release
                  ELSE Unwrap(meta).versioning.latest)

\* the tag <timestamp>-<buildNumber> of a versioning with a snapshot block
SnapshotTag(versioning) ==
    Unwrap(versioning.snapshot).timestamp
    \o <<Dash>> \o IntToStr(Unwrap(versioning.snapshot).buildNumber)
\* the positions of the snapshotVersions entries whose value ends with the tag
TagMatches(versioning) ==
    IF IsNone(versioning.snapshot_versions) THEN {}
    ELSE {i \in 1..Len(Unwrap(versioning.snapshot_versions)) :
             ends_with(Unwrap(versioning.snapshot_versions)[i].value,
                       SnapshotTag(versioning))}
\* a snapshot coordinate on a repository that serves snapshots
SnapshotOnSnapshotRepository ==
    /\ pc # "start"
    /\ IsSome(artifact.version)
    /\ IsSnapshotVersion(Unwrap(artifact.version))
    /\ repository.snapshots

\* C4: for a snapshot coordinate on a snapshot-enabled repository, download
\* fetches g/a/v/maven-metadata.xml, and once the metadata (with its snapshot
\* block) has arrived the resolved version is the value of the first
\* snapshotVersions entry that ends with <timestamp>-<buildNumber>, or the
\* coordinate's own version when no entry does or the list is absent.
C4_SnapshotResolution ==
    SnapshotOnSnapshotRepository
    => /\ requests # <<>>
       /\ requests[1].kind = "metadata"
       /\ requests[1].path = replace(artifact.group_id, Dot, Slash) \o <<Slash>>
                             \o artifact.artifact_id \o <<Slash>>
                             \o Unwrap(artifact.version)
       /\ requests[1].file = str_maven_metadata_xml
       /\ (IsSome(meta) /\ IsSome(Unwrap(meta).versioning.snapshot))
          => LET versioning == Unwrap(meta).versioning
                 m == TagMatches(versioning)
             IN /\ IsSome(resolved)
                /\ Unwrap(resolved).resolved_version =
                     (IF m = {} THEN Unwrap(artifact.version)
                      ELSE Unwrap(versioning.snapshot_versions)[
                               CHOOSE i \in m : \A j \in m : i <= j].value)

\* C4 witness: the snapshot version was resolved to the first of two entries
\* that end with the tag, past an entry that does not
C4_Witness ==
    /\ SnapshotOnSnapshotRepository
    /\ IsSome(meta)
    /\ IsSome(Unwrap(meta).versioning.snapshot)
    /\ TagMatches(Unwrap(meta).versioning) = {2, 3}
    /\ IsSome(resolved)
    /\ Unwrap(resolved).resolved_version = <<"1",".","0","-","7",".","3","-","1","5">>

\* a snapshot coordinate on a repository with snapshots = false
SnapshotOnReleaseRepository ==
    /\ pc # "start"
    /\ IsSome(artifact.version)
    /\ IsSnapshotVersion(Unwrap(artifact.version))
    /\ ~repository.snapshots

\* C5: download of a -SNAPSHOT coordinate against a repository with
\* snapshots = false returns an error, sends no GET and creates no file.
C5_SnapshotNotAllowed ==
    SnapshotOnReleaseRepository
    => /\ pc = "done"
       /\ result.kind = "Err"
       /\ requests = <<>>
       /\ files = {}

\* C5 witness: download has returned on a releases-only repository
C5_Witness ==
    /\ SnapshotOnReleaseRepository
    /\ repository.releases
    /\ result.kind = "Err"

\* the metadata of a meta-version coordinate lacks the requested pointer
MetaPointerMissing ==
    /\ IsSome(artifact.version)
    /\ ~IsSnapshotVersion(Unwrap(artifact.version))
    /\ IsMetaVersion(Unwrap(artifact.version))
    /\ IsSome(meta)
    /\ IsNone(IF IsReleaseVersion(Unwrap(artifact.version))
              THEN Unwrap(meta).versioning.release
              ELSE Unwrap(meta).versioning.latest)

\* C6: when the metadata of a meta-version coordinate lacks the requested
\* pointer, download returns an error, sends no artifact GET and creates no
\* file, whether or not the other pointer is present.
C6_MetaPointerAbsent ==
    MetaPointerMissing
    => /\ pc = "done"
       /\ result.kind = "Err"
       /\ ArtifactRequests = {}
       /\ resolved = None
       /\ files = {}

\* C6 witness: release is absent, latest is present, and download failed
C6_Witness ==
    /\ MetaPointerMissing
    /\ IsReleaseVersion(Unwrap(artifact.version))
    /\ IsSome(Unwrap(meta).versioning.latest)
    /\ result.kind = "Err"

\* the last two path segments of the url of the artifact GET i
VersionSegment(i) == Segments(requests[i].url)[Len(Segments(requests[i].url)) - 1]
FileSegment(i) == Segments(requests[i].url)[Len(Segments(requests[i].url))]

\* C7 as stated: in the url of the artifact GET the version segment is the
\* coordinate's own version for every kind of coordinate, and the file name
\* carries the resolved version.
C7_VersionSegmentIsOwnVersion ==
    \A i \in ArtifactRequests :
        /\ VersionSegment(i) = Unwrap(artifact.version)
        /\ FileSegment(i) = FileNameWith(artifact, Unwrap(resolved).resolved_version)

\* C7 amended: in the url of the artifact GET the version segment is the
\* coordinate's own version for a snapshot and for a fixed coordinate and the
\* resolved version for a meta-version coordinate, and the file name carries
\* the resolved version.
C7_VersionSegment ==
    \A i \in ArtifactRequests :
        /\ VersionSegment(i) =
             (IF IsSnapshotVersion(Unwrap(artifact.version))
                  \/ ~IsMetaVersion(Unwrap(artifact.version))
              THEN Unwrap(artifact.version)
              ELSE Unwrap(resolved).resolved_version)
        /\ FileSegment(i) = FileNameWith(artifact, Unwrap(resolved).resolved_version)

\* C7 witness: the artifact GET of a meta-version coordinate was sent
C7_Witness ==
    /\ ArtifactRequests # {}
    /\ IsMetaVersion(Unwrap(artifact.version))
    /\ Unwrap(resolved).resolved_version # Unwrap(artifact.version)

\* the path of the url the repository was built from, without trailing slashes
RECURSIVE TrimSlashes(_)
TrimSlashes(p) ==
    IF p # <<>> /\ p[Len(p)] = Slash THEN TrimSlashes(SubSeq(p, 1, Len(p) - 1)) ELSE p

\* C8: the url of the artifact GET keeps the host of the base url and has
\* exactly one slash between the base path and the group path, also when the
\* base path ends with "/" or is the root "/".
C8_SingleSlashAfterBase ==
    \A i \in ArtifactRequests :
        /\ requests[i].url.host = base_url.host
        /\ starts_with(requests[i].url.path,
                       TrimSlashes(base_url.path) \o <<Slash>>
                       \o replace(artifact.group_id, Dot, Slash) \o <<Slash>>
                       \o artifact.artifact_id \o <<Slash>>)

\* C9: download classifies a version as snapshot iff it ends with the exact
\* suffix -SNAPSHOT, else as meta-version iff its lowercased form is latest or
\* release, else as fixed; no version is both a snapshot and a meta-version.
C9_Classification ==
    (pc # "start" /\ IsSome(artifact.version))
    => LET v == Unwrap(artifact.version)
       IN /\ branch = (IF IsSnapshotVersion(v) THEN "snapshot"
                       ELSE IF IsMetaVersion(v) THEN "meta"
                       ELSE "fixed")
          /\ ~(IsSnapshotVersion(v) /\ IsMetaVersion(v))

\* C9 witness: a lower-case -snapshot suffix was classified as fixed
C9_Witness ==
    /\ pc # "start"
    /\ artifact.version = Some(<<"1",".","0","-","s","n","a","p","s","h","o","t">>)
    /\ branch = "fixed"

\* the number of colon-separated parts of a string
NumParts(s) == 1 + Cardinality({i \in 1..Len(s) : s[i] = Colon})
NoColon(s) == \A i \in 1..Len(s) : s[i] # Colon
Joined(parts) ==
    IF Len(parts) = 3 THEN parts[1] \o <<Colon>> \o parts[2] \o <<Colon>> \o parts[3]
    ELSE IF Len(parts) = 4
    THEN parts[1] \o <<Colon>> \o parts[2] \o <<Colon>> \o parts[3] \o <<Colon>> \o parts[4]
    ELSE parts[1] \o <<Colon>> \o parts[2] \o <<Colon>> \o parts[3] \o <<Colon>> \o parts[4]
         \o <<Colon>> \o parts[5]

\* C10: Artifact::parse accepts exactly the strings of 3, 4 or 5
\* colon-separated parts and reads them as g:a:v, g:a:extension:v and
\* g:a:extension:classifier:v; PartialArtifact::parse accepts exactly the
\* strings of 2 parts, read as g:a.
C10_ParseArity ==
    /\ IsSome(parsed) =>
         LET r == Unwrap(parsed)
             n == NumParts(input)
         IN /\ r.ok <=> n \in {3, 4, 5}
            /\ r.ok =>
                 LET a == r.value
                 IN /\ NoColon(a.group_id) /\ NoColon(a.artifact_id)
                    /\ IsSome(a.version) /\ NoColon(Unwrap(a.version))
                    /\ IsSome(a.extension) <=> n \in {4, 5}
                    /\ IsSome(a.classifier) <=> n = 5
                    /\ IsSome(a.extension) => NoColon(Unwrap(a.extension))
                    /\ IsSome(a.classifier) => NoColon(Unwrap(a.classifier))
                    /\ input = Joined(<<a.group_id, a.artifact_id>> \o a.extension
                                      \o a.classifier \o a.version)
    /\ IsSome(partial) =>
         LET r == Unwrap(partial)
         IN /\ r.ok <=> NumParts(input) = 2
            /\ r.ok => /\ NoColon(r.value.group_id) /\ NoColon(r.value.artifact_id)
                       /\ r.value.version = None
                       /\ input = r.value.group_id \o <<Colon>> \o r.value.artifact_id

\* C10 witness: a string of 5 parts was accepted by Artifact::parse, with its
\* fourth part as the classifier, and rejected by PartialArtifact::parse
C10_Witness ==
    /\ NumParts(input) = 5
    /\ IsSome(parsed) /\ Unwrap(parsed).ok
    /\ Unwrap(parsed).value.classifier = Some(<<"b">>)
    /\ IsSome(partial) /\ ~Unwrap(partial).ok

\* the result of render followed by parse agrees with the coordinate in
\* groupId, artifactId, version and classifier
SameButExtension(r, c) ==
    /\ r.ok
    /\ r.value.group_id = c.group_id
    /\ r.value.artifact_id = c.artifact_id
    /\ r.value.version = c.version
    /\ r.value.classifier = c.classifier

\* C11 as stated: parse(render(c)) equals c in groupId, artifactId, version
\* and classifier, and the two extensions are both None or both the same
\* non-jar string, except that extension = jar with no classifier re-parses
\* as None.
C11_RoundTripAsStated ==
    IsSome(reparsed) =>
        LET r == Unwrap(reparsed)
            c == coordinate
        IN /\ SameButExtension(r, c)
           /\ IF c.extension = Some(str_jar) /\ c.classifier = None
              THEN r.value.extension = None
              ELSE \/ r.value.extension = None /\ c.extension = None
                   \/ /\ IsSome(c.extension)
                      /\ r.value.extension = c.extension
                      /\ Unwrap(c.extension) # str_jar

\* C11 (amended): parse(render(c)) equals c in groupId, artifactId, version
\* and classifier; without a classifier the extension comes back unchanged
\* except that jar comes back as None; with a classifier the extension comes
\* back as Some of c's extension, an absent one as Some(jar).
C11_RoundTrip ==
    IsSome(reparsed) =>
        LET r == Unwrap(reparsed)
            c == coordinate
        IN /\ SameButExtension(r, c)
           /\ r.value.extension =
                 IF c.classifier = None
                 THEN (IF c.extension = Some(str_jar) THEN None ELSE c.extension)
                 ELSE Some(ext_or_jar(c))

\* C11 witness: a coordinate with a classifier and no extension was rendered
\* and parsed again, and came back with the extension jar
C11_Witness ==
    /\ coordinate.extension = None
    /\ coordinate.classifier = Some(<<"s">>)
    /\ IsSome(reparsed)
    /\ Unwrap(reparsed).ok
    /\ Unwrap(reparsed).value.extension = Some(str_jar)

\* C12 as stated: the to_string() of the Artifact parsed from an accepted
\* string is that string.
C12_PrintIsInputAsStated ==
    IsSome(printed) => Unwrap(printed) = input

\* C12 (amended): the to_string() of the Artifact parsed from an accepted
\* string is that string, except that a 4-part string whose third part is
\* jar (g:a:jar:v) is printed as the 3-part g:a:v.
C12_PrintIsInput ==
    IsSome(printed) =>
        LET parts == split(input, Colon)
        IN IF Len(parts) = 4 /\ parts[3] = str_jar
           THEN Unwrap(printed) = join(<<parts[1], parts[2], parts[4]>>, Colon)
           ELSE Unwrap(printed) = input

\* C12 witness: a 4-part string with the extension jar was parsed and printed
\* without its extension
C12_Witness ==
    /\ NumParts(input) = 4
    /\ IsSome(parsed) /\ Unwrap(parsed).ok
    /\ Unwrap(parsed).value.extension = Some(str_jar)
    /\ IsSome(printed)
    /\ Unwrap(printed) # input

\* collect_dependencies has returned Ok
CollectedOk == cd_pc = "done" /\ collected.kind = "Ok"

\* the dependencies of the requested project, and the i-th of them after
\* substitution in the effective property scope
Declared == Unwrap(project).dependencies
Substituted(i) == resolve_properties(Declared[i], cd_props)
HasVersion(i) == IsSome(Substituted(i).artifact.version)
Managed(i) == mngt_key(Substituted(i)) \in DOMAIN boms
\* the dependencies that are not dropped, and the position of each of them
\* among those
Kept == {i \in 1..Len(Declared) : HasVersion(i) \/ Managed(i)}
Rank(i) == Cardinality({j \in Kept : j <= i})
\* the second segment of a pom.xml path g/a/v
ArtifactSegment(path) == split(path, Slash)[2]

\* C13: collect_dependencies returns, in the order of the project's
\* dependencies, the substituted coordinate of every dependency that has a
\* version and the managed coordinate of every version-less dependency whose
\* groupId:artifactId is a key of the BOM map; the others are dropped and the
\* call still returns Ok; equal coordinates stay, and no POM of a dependency
\* is fetched.
C13_CollectedInPomOrder ==
    /\ CollectedOk =>
         /\ Len(collected.value) = Cardinality(Kept)
         /\ \A i \in Kept :
               collected.value[Rank(i)] =
                   IF HasVersion(i) THEN Substituted(i).artifact
                   ELSE boms[mngt_key(Substituted(i))].artifact
    /\ IsSome(project) =>
         \A k \in 1..Len(requests) : \A i \in 1..Len(Declared) :
             ArtifactSegment(requests[k].path) # Declared[i].artifact.artifact_id

\* C13 witness: of the six dependencies five were returned: g:x twice with
\* the version of the parent's property v, g:y and g:z with the versions the
\* imported BOMs manage, g:w; the unmanaged g:u was dropped
C13_Witness ==
    /\ CollectedOk
    /\ Len(collected.value) = 5
    /\ collected.value[1] = GA(<<"x">>, Some(<<"5">>), None)
    /\ collected.value[2] = GA(<<"y">>, Some(<<"7">>), None)
    /\ collected.value[3] = collected.value[1]
    /\ collected.value[4] = GA(<<"z">>, Some(<<"5">>), None)
    /\ collected.value[5].artifact_id = <<"w">>

\* the requested project and the ancestors get_parents returned
Levels == project \o parents
\* the dependencyManagement entries of the levels
ManagementEntries ==
    UNION {{Levels[l].dependency_management.dependencies[i] :
               i \in 1..Len(Levels[l].dependency_management.dependencies)} :
           l \in 1..Len(Levels)}
\* an entry with scope import and effective extension pom
IsImportOfPom(d) ==
    d.scope = Some(str_import) /\ UnwrapOr(d.artifact.extension, str_jar) = str_pom
\* a GET of the POM of coordinate a is in the log
Fetched(a) == \E k \in 1..Len(requests) : requests[k].path = Artifact_path(a)
\* the POM the repository serves for coordinate a
ServedPom(a) == Unwrap(PomOutcome(Artifact_path(a)).pom)
\* the dependency-management entries of the imported BOMs, each after
\* substitution with the properties of its own BOM
ImportedEntries ==
    UNION {{resolve_properties(ServedPom(d.artifact).dependency_management.dependencies[i],
                               ServedPom(d.artifact).properties) :
               i \in 1..Len(ServedPom(d.artifact).dependency_management.dependencies)} :
           d \in {e \in ManagementEntries : IsImportOfPom(e)}}

\* C14: the POM of every dependencyManagement entry with scope import and
\* effective extension pom is fetched, and the management map holds, under
\* groupId:artifactId, the dependency-management entries of the fetched
\* POMs after substitution with the properties of their own POM, and nothing
\* else; no GET is sent for an entry that is not both.
C14_BomImport ==
    /\ \A d \in ManagementEntries : ~IsImportOfPom(d) => ~Fetched(d.artifact)
    /\ CollectedOk =>
         /\ \A d \in ManagementEntries : IsImportOfPom(d) => Fetched(d.artifact)
         /\ DOMAIN boms = {mngt_key(m) : m \in ImportedEntries}
         /\ \A k \in DOMAIN boms : boms[k] \in ImportedEntries /\ mngt_key(boms[k]) = k

\* C14 witness: the three BOMs imported by the project and its parent were
\* fetched, and g:y is managed with the version 7 that the BOM g:b:1 gives
\* through its own property bv
C14_Witness ==
    /\ CollectedOk
    /\ Len(parents) >= 1
    /\ Cardinality({d \in ManagementEntries : IsImportOfPom(d) /\ Fetched(d.artifact)}) = 3
    /\ Cardinality({d \in ManagementEntries : ~IsImportOfPom(d)}) = 3
    /\ get(boms, <<"g", Colon, "y">>) =
           Some(Dependency(GA(<<"y">>, Some(<<"7">>), None), None))

\* the entries the requested project declares in its own dependencyManagement
\* to manage a version (those that import no BOM)
OwnManaged ==
    {Unwrap(project).dependency_management.dependencies[i] :
        i \in 1..Len(Unwrap(project).dependency_management.dependencies)}
    \ {d \in ManagementEntries : IsImportOfPom(d)}

\* C15: in the management map an entry of the project's own
\* dependencyManagement for g:a takes precedence over an imported BOM's entry
\* for g:a, so that a version-less dependency g:a is returned with the
\* project's own managed version.
C15_OwnManagementWins ==
    CollectedOk =>
        \A m \in OwnManaged :
            mngt_key(m) \in DOMAIN boms =>
                /\ boms[mngt_key(m)].artifact.version = m.artifact.version
                /\ \A i \in 1..Len(collected.value) :
                      /\ collected.value[i].group_id = m.artifact.group_id
                      /\ collected.value[i].artifact_id = m.artifact.artifact_id
                      => collected.value[i].version = m.artifact.version

\* the levels whose POM defines the property name, and the one nearest the
\* project (level 1 is the project, 2 its immediate parent, the last the root)
Defining(name) == {l \in 1..Len(Levels) : name \in DOMAIN Levels[l].properties}
Nearest(name) == CHOOSE l \in Defining(name) : \A m \in Defining(name) : l <= m

\* C16: the effective property scope gives every property name the value of
\* the nearest level that defines it (the project, else its immediate
\* parent, else the next ancestor, up to the root), and holds no name that no
\* level defines.
C16_NearestLevelWins ==
    CollectedOk =>
        /\ DOMAIN cd_props = UNION {DOMAIN Levels[l].properties : l \in 1..Len(Levels)}
        /\ \A name \in DOMAIN cd_props :
              cd_props[name] = Levels[Nearest(name)].properties[name]

\* C16 witness: the project does not define v, its parent defines it as 5
\* and the root ancestor as 6, and the scope gives 5
C16_Witness ==
    /\ CollectedOk
    /\ Len(parents) = 2
    /\ Unwrap(project).properties = EmptyMap
    /\ parents[1].properties = str_v :> <<"5">>
    /\ parents[2].properties = str_v :> <<"6">>
    /\ cd_props = str_v :> <<"5">>

\* the version ${project.version} stands for: the project's own, or its
\* parent's when the project's POM has none
ProjectVersion ==
    IF IsSome(Unwrap(project).artifact.version) THEN Unwrap(project).artifact.version
    ELSE Unwrap(Unwrap(project).parent).version

\* C17: a dependency whose version is ${project.version}, in a project whose
\* POM does not define the property project.version itself, is returned by
\* collect_dependencies with the project's own version (the parent's version
\* when the project has none).
C17_ProjectVersionPlaceholder ==
    CollectedOk =>
        \A i \in 1..Len(Declared) :
            /\ Declared[i].artifact.version = Some(Placeholder(str_project_version))
            /\ str_project_version \notin DOMAIN Unwrap(project).properties
            /\ IsSome(Unwrap(project).artifact.version) \/ IsSome(Unwrap(project).parent)
            => collected.value[Rank(i)].version = ProjectVersion

\* the repository serves a POM for coordinate a that the parser reads
Readable(a) ==
    /\ is_success(PomOutcome(Artifact_path(a)).status)
    /\ IsSome(PomOutcome(Artifact_path(a)).pom)
    /\ PomParser_parse_project(ServedPom(a)).ok

\* the ancestors of p whose POMs can be fetched one after the other, nearest
\* first, up to the first one that cannot
RECURSIVE Ancestors(_)
Ancestors(p) ==
    IF IsNone(p.parent) \/ ~Readable(Unwrap(p.parent)) THEN <<>>
    ELSE LET next == PomParser_parse_project(ServedPom(Unwrap(p.parent))).value
         IN <<next>> \o Ancestors(next)

\* get_parents has returned
ParentsWalked == cd_pc \in {"boms_parents", "boms_project", "done"} /\ IsSome(project)

\* C18: a failure to fetch or parse an ancestor's POM ends the parent walk
\* there without an error: get_parents returns the ancestors obtained up to
\* that point, immediate parent first, and collect_dependencies goes on; it
\* fails when the requested project's own POM cannot be fetched or parsed,
\* and otherwise only when the POM of an imported BOM cannot.
C18_ParentWalkTolerant ==
    /\ ParentsWalked => parents = Ancestors(Unwrap(project))
    /\ cd_pc = "done" =>
         /\ ~Readable(artifact) => collected.kind = "Err" /\ IsNone(project)
         /\ Readable(artifact) =>
               /\ IsSome(project)
               /\ collected.kind = "Err" =>
                     \E d \in ManagementEntries :
                         IsImportOfPom(d) /\ ~Readable(d.artifact)

\* C18 witness: the parent's POM was fetched and names a parent of its own
\* whose POM is not found; get_parents returned the parent alone and
\* collect_dependencies returned Ok
C18_Witness ==
    /\ CollectedOk
    /\ Len(parents) = 1
    /\ IsSome(parents[1].parent)
    /\ PomOutcome(Artifact_path(Unwrap(parents[1].parent))).status = 404
    /\ \E k \in 1..Len(requests) :
          /\ requests[k].path = Artifact_path(Unwrap(parents[1].parent))
          /\ requests[k].status = 404

\* the future i of the BOM fan-out is ready with an error
BomFailed(i) == tasks[i].state = "ready" /\ tasks[i].output.kind # "Ok"
\* the future i of the download fan-out is ready with an error
DownloadFailed(i) == downloads[i].pc = "done" /\ downloads[i].result.kind = "Err"

\* C19 as stated: in each concurrent fan-out, once one request of the set has
\* failed the remaining requests are aborted, that is, none of them takes a
\* further step.
C19_AbortOnFailureAsStated ==
    [][ /\ (cd_pc \in {"boms_parents", "boms_project"}
            /\ \E i \in 1..Len(tasks) : BomFailed(i))
           => \A j \in 1..Len(tasks) :
                 tasks[j].state = "pending" => tasks'[j].state = "pending"
        /\ (rp_pc = "deps" /\ \E i \in 1..Len(downloads) : DownloadFailed(i))
           => \A j \in 1..Len(downloads) :
                 downloads[j].pc # "done" => downloads'[j] = downloads[j] ]_vars

\* C19, amended: in each concurrent fan-out a failed request does not abort
\* the others: when the fan-out surfaces an error to its caller, every
\* request of the set has completed, and the error is that of the first
\* failing request in the order of the set (the order of the imports, the
\* order of the collected dependencies), whichever failed first in time.
C19_AllCompleteFirstInOrder ==
    /\ (cd_pc = "done" /\ collected.kind # "Ok" /\ Len(tasks) > 0)
        => /\ \A j \in 1..Len(tasks) : tasks[j].state = "ready"
           /\ \E i \in 1..Len(tasks) :
                /\ BomFailed(i)
                /\ collected = tasks[i].output
                /\ \A j \in 1..(i-1) : ~BomFailed(j)
    /\ (rp_pc = "done" /\ rp_result.kind = "Err")
        => /\ \A j \in 1..Len(downloads) : downloads[j].pc = "done"
           /\ \E i \in 1..Len(downloads) :
                /\ DownloadFailed(i)
                /\ rp_result = downloads[i].result
                /\ \A j \in 1..(i-1) : ~DownloadFailed(j)

\* the resolve-project command ended with the error of its first dependency
\* download although the second one, whose GET was answered, failed with
\* another error
C19_Witness ==
    /\ rp_pc = "done"
    /\ Len(downloads) = 2
    /\ DownloadFailed(1)
    /\ DownloadFailed(2)
    /\ downloads[1].result # downloads[2].result
    /\ downloads[2].req # 0
    /\ requests[downloads[2].req].status # 0
    /\ rp_result = downloads[1].result

\* the futures i and j of the download fan-out are for distinct collected
\* dependencies and both wrote their file
WroteBoth(i, j) ==
    /\ i # j
    /\ downloads[i].artifact # downloads[j].artifact
    /\ downloads[i].result.kind = "Ok"
    /\ downloads[j].result.kind = "Ok"

\* C20: two download tasks of one resolve-project run that are for distinct
\* collected dependencies never create the same path.
C20_DistinctFileNames ==
    \A i, j \in 1..Len(downloads) :
        WroteBoth(i, j) => downloads[i].result.path # downloads[j].result.path

\* the coordinate has a version that is neither a snapshot nor a meta-version
IsFixedVersion(a) ==
    /\ IsSome(a.version)
    /\ ~IsSnapshotVersion(Unwrap(a.version))
    /\ ~IsMetaVersion(Unwrap(a.version))
\* the metadata GET of the run failed: no response, a status that is no
\* success, or a body that does not parse
MetadataGetFailed ==
    /\ pc = "done"
    /\ Len(requests) >= 1
    /\ requests[1].kind = "metadata"
    /\ \/ requests[1].status \notin 200..299
       \/ result = Err("XMLMetadataDecodeError")

\* C30: in every run of download the artifact GET is issued only after the
\* version is resolved: for a fixed version it is the only GET and uses the
\* coordinate version; for a snapshot or meta-version exactly one metadata
\* GET, answered with a success status, precedes it; and when the metadata
\* GET fails no artifact GET is issued and no file is created.
C30_ArtifactGetAfterResolution ==
    /\ \A i \in ArtifactRequests :
          /\ ArtifactRequests = {i}
          /\ IF IsFixedVersion(artifact)
             THEN /\ Len(requests) = 1
                  /\ Unwrap(resolved).resolved_version = Unwrap(artifact.version)
             ELSE /\ i = 2
                  /\ MetadataRequests = {1}
                  /\ requests[1].status \in 200..299
    /\ IsFixedVersion(artifact) => MetadataRequests = {}
    /\ Cardinality(MetadataRequests) <= 1
    /\ MetadataGetFailed => ArtifactRequests = {} /\ files = {}

\* a snapshot download that returned Ok after its metadata GET and then its
\* artifact GET
C30_Witness ==
    /\ pc = "done"
    /\ branch = "snapshot"
    /\ Len(requests) = 2
    /\ requests[2].kind = "artifact"
    /\ result.kind = "Ok"

\* C28: every run of download on a snapshot coordinate ends with a value,
\* Ok or Err; in particular metadata that parses but has no snapshot block
\* gives an Err (or the literal version), never an abort of the task.
C28_SnapshotFailureIsErr ==
    (pc = "done" /\ branch = "snapshot") => result.kind \in {"Ok", "Err"}

\* the dependency-management entries the BOMs imported by ds supply, in the
\* order of the imports, each after substitution with its BOM's properties
RECURSIVE LevelEntries(_)
LevelEntries(ds) ==
    IF Len(ds) = 0 THEN <<>>
    ELSE resolve_properties_this(
             PomParser_parse_project(ServedPom(Head(ds).artifact)).value).dependencies
         \o LevelEntries(Tail(ds))
\* the management map of the BOMs imported at level l
LevelMap(l) ==
    mapped(LevelEntries(SelectSeq(Levels[l].dependency_management.dependencies,
                                  IsImportOfPom)))
\* the levels whose imported BOMs supply the key k, and the nearest of them
Supplying(k) == {l \in 1..Len(Levels) : k \in DOMAIN LevelMap(l)}
NearestSupplying(k) == CHOOSE l \in Supplying(k) : \A m \in Supplying(k) : l <= m

\* C29: when BOMs imported at different levels of the ancestor chain supply
\* an entry for the same management key, the map holds the entry of the
\* level nearest to the project (project, then immediate parent, then
\* grandparent, up to the root).
C29_NearestBomWins ==
    CollectedOk =>
        \A k \in DOMAIN boms : boms[k] = LevelMap(NearestSupplying(k))[k]

\* the import entries of a dependencyManagement with each BOM listed once:
\* an import that is listed again further on is dropped
RECURSIVE ListedOnce(_)
ListedOnce(ds) ==
    IF Len(ds) = 0 THEN <<>>
    ELSE IF \E j \in 2..Len(ds) : ds[j] = Head(ds) THEN ListedOnce(Tail(ds))
    ELSE <<Head(ds)>> \o ListedOnce(Tail(ds))
\* the BOM imports of level l
ImportsOf(l) == SelectSeq(Levels[l].dependency_management.dependencies, IsImportOfPom)
\* the BOM imports of level l with each BOM listed once, and for an ancestor
\* without the BOMs the project imports itself
ImportsOnce(l) ==
    IF l = 1 THEN ListedOnce(ImportsOf(1))
    ELSE SelectSeq(ListedOnce(ImportsOf(l)),
                   LAMBDA d : \A i \in 1..Len(ImportsOf(1)) : ImportsOf(1)[i] # d)
\* the management map get_boms_from_all builds when every BOM is listed once
MapListedOnce ==
    extend(extend_with_parent_boms(
               EmptyMap,
               [i \in 1..Len(parents) |-> OkValue(LevelEntries(ImportsOnce(i + 1)))], 1),
           mapped(LevelEntries(ImportsOnce(1))))
\* a BOM is listed more than once: twice by one level, or by the project and
\* by an ancestor
ListedTwice ==
    \/ \E l \in 1..Len(Levels) : ListedOnce(ImportsOf(l)) # ImportsOf(l)
    \/ \E l \in 2..Len(Levels) : ImportsOnce(l) # ListedOnce(ImportsOf(l))

\* C25: BOM import is idempotent: with a BOM listed twice in one
\* dependencyManagement, or imported by both the project and an ancestor,
\* the management map is exactly the map of the same POMs with that BOM
\* listed once.
C25_BomImportIdempotent ==
    CollectedOk => boms = MapListedOnce

\* C25 witness: the project lists the BOM g:b:1 twice and imports g:d:1 as
\* its root ancestor does; the three fetches of the project's imports and the
\* two of the root's were answered, and g:z is managed once, by g:d:1
C25_Witness ==
    /\ CollectedOk
    /\ ListedTwice
    /\ Len(parents) = 2
    /\ Len(ImportsOf(1)) = 3
    /\ Len(ImportsOnce(1)) = 2
    /\ Len(ImportsOf(3)) = 2
    /\ Len(ImportsOnce(3)) = 1
    /\ Cardinality({k \in 1..Len(requests) : requests[k].path = PomPath(<<"b">>)}) = 2
    /\ get(boms, <<"g", Colon, "z">>) =
           Some(Dependency(GA(<<"z">>, Some(<<"5">>), None), None))

\* the effective property scope of level l: every name its POM or the POM
\* of one of its ancestors defines, with the value of the nearest of them
ScopeOf(l) ==
    [name \in UNION {DOMAIN Levels[m].properties : m \in l..Len(Levels)} |->
        Levels[CHOOSE m \in l..Len(Levels) :
                  /\ name \in DOMAIN Levels[m].properties
                  /\ \A n \in l..(m-1) : name \notin DOMAIN Levels[n].properties
              ].properties[name]]

\* C27: the GET for an imported BOM goes to the path of the import entry
\* after substitution of the ${name} placeholders of its groupId, artifactId
\* and version with the effective property scope of the declaring project.
C27_ImportPlaceholdersSubstituted ==
    cd_pc \in {"boms_parents", "boms_project", "done"} =>
        \A i \in 1..Len(tasks) :
            requests[tasks[i].req].path =
                Artifact_path(resolve_properties(Dependency(tasks[i].artifact, None),
                                                 ScopeOf(tasks[i].owner + 1)).artifact)

\* the parent chain of p ends within n steps: at a project without a parent
\* or at a parent whose POM cannot be fetched or read
RECURSIVE EndsWithin(_, _)
EndsWithin(p, n) ==
    IF IsNone(p.parent) \/ ~Readable(Unwrap(p.parent)) THEN TRUE
    ELSE IF n = 0 THEN FALSE
    ELSE EndsWithin(PomParser_parse_project(ServedPom(Unwrap(p.parent))).value, n - 1)
\* the parent chain of the requested project is finite: it ends before it
\* has gone through more POMs than the repository holds
ChainFinite == EndsWithin(Unwrap(project), Cardinality(DOMAIN poms))
\* the last project of the walk
LastLevel == Levels[Len(Levels)]
\* the GETs of the parent walk: those of the POMs of g:p:1 and g:q:1
ParentGets ==
    {k \in 1..Len(requests) : requests[k].path \in {PomPath(<<"p">>), PomPath(<<"q">>)}}

\* C26: for a finite parent chain get_parents fetches one POM per ancestor
\* (and one more when the walk ends at a POM that cannot be fetched or read),
\* returns the ancestors in order and stops at the first project without a
\* parent; for a parent cycle whose POMs all fetch it never returns: the
\* walk goes on fetching and collect_dependencies yields no result.
C26_ParentWalkTermination ==
    IsSome(project) =>
        IF ChainFinite
        THEN /\ Len(parents) <= Len(Ancestors(Unwrap(project)))
             /\ ParentsWalked =>
                   /\ parents = Ancestors(Unwrap(project))
                   /\ Cardinality(ParentGets) =
                         Len(parents) + (IF IsSome(LastLevel.parent) THEN 1 ELSE 0)
        ELSE /\ cd_pc = "parent"
             /\ collected = NoResult
             /\ Cardinality(ParentGets) = Len(parents) + 1
             /\ \A i \in 1..Len(parents) :
                   parents[i].artifact.artifact_id =
                       IF i % 2 = 1 THEN <<"p">> ELSE <<"q">>

\* C26 witness: in a repository where g:q:1 names g:p:1 as its parent the
\* walk has gone round the cycle twice and is still fetching
C26_Witness ==
    /\ IsSome(project)
    /\ ~ChainFinite
    /\ Len(parents) = 4
    /\ cd_pc = "parent"

\* the elements parse_project names
RecognizedElements ==
    {"groupId", "artifactId", "version", "packaging", "classifier", "parent",
     "dependencyManagement", "dependencies", "properties"}
\* the document without the children of its root that are not recognized
WithoutUnrecognized(doc) ==
    Node(doc.name, SelectSeq(doc.children, LAMBDA c : c.name \in RecognizedElements))

\* C21: the parsed Project is the one of the same document without its
\* unrecognized top-level elements: elements named groupId, artifactId,
\* version or dependencies nested inside <build> change nothing.
C21_OnlyDirectChildren ==
    IsSome(pom_result) =>
        Unwrap(pom_result) = PomParser_parse(WithoutUnrecognized(document))

\* C22: a <parent> without a <version> is a parse error, so the parent of
\* every parsed Project has a version.
C22_ParentHasVersion ==
    (IsSome(pom_result) /\ Unwrap(pom_result).ok
     /\ IsSome(Unwrap(pom_result).value.parent))
    => IsSome(Unwrap(Unwrap(pom_result).value.parent).version)

\* an element named n is e or is somewhere inside e
RECURSIVE Appears(_, _)
Appears(e, n) ==
    \/ e.name = n
    \/ \E k \in 1..Len(e.children) : Appears(e.children[k], n)
\* the children of e named n
ChildrenNamed(e, n) == {e.children[k] : k \in {j \in 1..Len(e.children) : e.children[j].name = n}}
\* the element of each field of Versioning
VersioningElement ==
    [latest |-> "latest", release |-> "release", versions |-> "versions",
     last_updated |-> "lastUpdated", snapshot |-> "snapshot",
     snapshot_versions |-> "snapshotVersions"]
\* the document has no groupId, no artifactId or no versioning
MissingRequired(doc) ==
    \E n \in {"groupId", "artifactId", "versioning"} : ~Appears(doc, n)
\* the versioning block of the document has a snapshot block without a
\* timestamp or without a buildNumber
IncompleteSnapshot(doc) ==
    \E v \in ChildrenNamed(doc, "versioning") : \E sn \in ChildrenNamed(v, "snapshot") :
        ~Appears(sn, "timestamp") \/ ~Appears(sn, "buildNumber")
\* every field of the parsed Versioning whose element is not in the document
\* is None
AbsentIsNone(doc, m) ==
    \A f \in DOMAIN VersioningElement :
        ~Appears(doc, VersioningElement[f]) => m.versioning[f] = None

LastNewestFirst(v, n) ==
    [i \in 1..(IF n < Len(v) THEN n ELSE Len(v)) |-> v[Len(v) + 1 - i]]

\* C24: the command fails without a versions list; otherwise its output,
\* cut at the line ends, is the last min(N, len) versions newest first, one
\* a line, N being 10 when no size is given.
C24_LastNewestFirst ==
    IsSome(sel_out) =>
        IF IsNone(sel_versions) THEN ~Unwrap(sel_out).ok
        ELSE /\ Unwrap(sel_out).ok
             /\ split(Unwrap(sel_out).value, Newline)
                  = LastNewestFirst(Unwrap(sel_versions),
                                    IF IsSome(sel_size) THEN Unwrap(sel_size) ELSE 10)
                    \o <<<<>>>>

\* more than ten versions and no size: ten lines are printed
C24_Witness ==
    /\ IsSome(sel_out)
    /\ Unwrap(sel_out).ok
    /\ IsNone(sel_size)
    /\ IsSome(sel_versions)
    /\ Len(Unwrap(sel_versions)) > 10
    /\ Len(split(Unwrap(sel_out).value, Newline)) = 11

====
